---- MODULE Spec2Model ----
(***************************************************************************)
(* A state-machine model of the AgentBeats evaluation core:                *)
(*   Messenger (src/agentbeats/messenger.py)  - sends, traces, client cache *)
(*   Executor  (src/agentbeats/executor.py)   - task lifecycle, three tiers *)
(*   scorers   (src/agentbeats/evals/*.py)    - graph, judge, text metrics  *)
(*                                                                         *)
(* Python values are represented as follows.                               *)
(*   Optional[T]   None is <<>>, a present value v is <<v>>                *)
(*   str (texts compared by the text scorer)  a sequence of characters     *)
(*   float         a pair <<num, den>> of integers, den > 0                *)
(*   dict          a function whose DOMAIN is the set of keys              *)
(* Coroutines run on one asyncio event loop: the variable `running` names  *)
(* the coroutine that holds the loop; it is released only at an await that *)
(* performs remote I/O, so the code between two such awaits is atomic with *)
(* respect to every other coroutine.                                       *)
(***************************************************************************)
EXTENDS Integers, Sequences, FiniteSets, TLC

(***************************************************************************)
(* Bounds of the model.                                                    *)
(***************************************************************************)
\* the longest message list handed to Executor.execute
MaxMsgs == 2
\* the largest number of talk_to_agent calls on the stand-alone Messenger
MaxCalls == 2
\* the largest number of consecutive close calls on the stand-alone Messenger
MaxCloses == 2
\* the longest trace list handed to the rule-based fallback judgment
MaxTraces == 10
\* the longest trace list handed to the graph scorer and the similarity tier
MaxTier == 3
\* the longest text handed to the similarity scorer
MaxLen == 2

(***************************************************************************)
(* Python values.                                                          *)
(***************************************************************************)
None == <<>>

Some(v) == <<v>>

\* a float as a fraction
Frac(n, d) == <<n, d>>

\* a Python dict with key k set to v (insert or replace of one key)
DictSet(d, k, v) == [x \in (DOMAIN d) \cup {k} |-> IF x = k THEN v ELSE d[x]]

EmptyDict == <<>>

\* the texts a remote agent may answer with, as character sequences
Texts == { <<>>, <<"a">>, <<"a", " ", "b">> }

\* the messages of str(e) for the exceptions the environment may raise;
\* an exception constructed without arguments has the empty message
ExcMessages == { "", "Connection failed" }

Endpoints == { "http://a", "http://b" }

Messages == { "m1", "m2" }

(***************************************************************************)
(* Messenger                                                               *)
(***************************************************************************)
\* TraceData as talk_to_agent builds it (the timestamp is wall-clock time and
\* is not modelled)
TraceData(agent_url, message, response, status_code, error, task_id) ==
    [agent_url |-> agent_url, message |-> message, response |-> response,
     status_code |-> status_code, error |-> error, task_id |-> task_id]

\* Messenger.__init__
NewMessenger == [traces |-> <<>>, clients |-> EmptyDict]

\* the events of a remote task's stream
StreamEvents ==
    { [state |-> "working",   output |-> None],
      [state |-> "completed", output |-> None],
      [state |-> "completed", output |-> Some(<<"a">>)],
      [state |-> "completed", output |-> Some(<<"a", " ", "b">>)] }

\* index of the first event of the stream whose state is completed, 0 if none
FirstCompleted(events) ==
    IF \E k \in 1..Len(events) : events[k].state = "completed"
    THEN CHOOSE k \in 1..Len(events) :
            /\ events[k].state = "completed"
            /\ \A j \in 1..(k-1) : events[j].state # "completed"
    ELSE 0

\* the loop over the task's events without its break: the output of the last
\* completed event
ResponseText_last_completed(events) ==
    LET C == { k \in 1..Len(events) : events[k].state = "completed" }
    IN  IF C = {} THEN <<>>
        ELSE LET k == CHOOSE j \in C : \A i \in C : i <= j
             IN  IF events[k].output = None THEN <<>> ELSE events[k].output[1]

\* the loop over the task's events: the output of the first completed event,
\* the empty text when that output is None or when no event is completed
ResponseText(events) ==
    LET k == FirstCompleted(events)
    IN  IF k = 0 THEN <<>>
        ELSE IF events[k].output = None THEN <<>> ELSE events[k].output[1]

(* What the environment does during one talk_to_agent call:                *)
(*   fail    where an exception is raised: "connect" (ClientFactory.connect,*)
(*           attempted only when the endpoint is not cached), "send"       *)
(*           (send_message or awaiting it), "stream" (the event iterator,  *)
(*           after yielding `events`), or "none"                           *)
(*   exc     str(e) of that exception                                      *)
(*   handle  the kind of client object connect returns: its close() works  *)
(*           ("ok"), raises ("raises"), or it has no close method ("absent")*)
(*   task_id the id attribute of the task object, None when it has none    *)
(*   events  the events the stream yields                                  *)
TalkEnv(fail, exc, handle, task_id, events) ==
    [fail |-> fail, exc |-> exc, handle |-> handle, task_id |-> task_id,
     events |-> events]

\* where talk_to_agent raises under env, "none" when it returns normally
RaisedAt(m, agent_url, env) ==
    IF agent_url \notin DOMAIN m.clients /\ env.fail = "connect" THEN "connect"
    ELSE IF env.fail = "send" THEN "send"
    ELSE IF env.fail = "stream" /\ FirstCompleted(env.events) = 0 THEN "stream"
    ELSE "none"

\* talk_to_agent with the except branch re-raising without recording a trace
talk_to_agent_drops_failures(m, agent_url, message, env) ==
    LET at == RaisedAt(m, agent_url, env)
        response_text == ResponseText(env.events)
    IN  IF at = "none"
        THEN [messenger |->
                 [traces |-> Append(m.traces,
                      TraceData(agent_url, message, response_text, Some(200), None,
                                env.task_id)),
                  clients |-> IF agent_url \notin DOMAIN m.clients
                              THEN DictSet(m.clients, agent_url, env.handle)
                              ELSE m.clients],
              raised |-> FALSE, value |-> Some(response_text),
              connect |-> IF agent_url \in DOMAIN m.clients THEN "cached" ELSE "opened",
              client |-> IF agent_url \in DOMAIN m.clients
                         THEN Some(m.clients[agent_url]) ELSE Some(env.handle)]
        ELSE [messenger |-> m, raised |-> TRUE, value |-> Some(env.exc),
              connect |-> IF agent_url \in DOMAIN m.clients THEN "cached"
                          ELSE IF at = "connect" THEN "failed" ELSE "opened",
              client |-> None]

\* talk_to_agent connecting on every call, whether or not the endpoint is cached
talk_to_agent_reconnects(m, agent_url, message, env) ==
    LET at == IF env.fail = "connect" THEN "connect"
              ELSE IF env.fail = "send" THEN "send"
              ELSE IF env.fail = "stream" /\ FirstCompleted(env.events) = 0 THEN "stream"
              ELSE "none"
        clients1 == IF at # "connect"
                    THEN DictSet(m.clients, agent_url, env.handle)
                    ELSE m.clients
        task_id == IF at \in {"connect", "send"} THEN None ELSE env.task_id
        response_text == ResponseText(env.events)
        trace == IF at = "none"
                 THEN TraceData(agent_url, message, response_text, Some(200), None, task_id)
                 ELSE TraceData(agent_url, message, <<>>, None, Some(env.exc), task_id)
    IN  [messenger |-> [traces |-> Append(m.traces, trace), clients |-> clients1],
         raised |-> at # "none",
         value |-> IF at = "none" THEN Some(response_text) ELSE Some(env.exc),
         connect |-> IF at = "connect" THEN "failed" ELSE "opened",
         client |-> IF at = "connect" THEN None ELSE Some(env.handle)]

\* talk_to_agent with the except branch recording the failure trace and
\* returning the empty text in place of re-raising
talk_to_agent_swallows(m, agent_url, message, env) ==
    LET at == RaisedAt(m, agent_url, env)
        clients1 == IF agent_url \notin DOMAIN m.clients /\ at # "connect"
                    THEN DictSet(m.clients, agent_url, env.handle)
                    ELSE m.clients
        task_id == IF at \in {"connect", "send"} THEN None ELSE env.task_id
        response_text == ResponseText(env.events)
        trace == IF at = "none"
                 THEN TraceData(agent_url, message, response_text, Some(200), None, task_id)
                 ELSE TraceData(agent_url, message, <<>>, None, Some(env.exc), task_id)
    IN  [messenger |-> [traces |-> Append(m.traces, trace), clients |-> clients1],
         raised |-> FALSE,
         value |-> IF at = "none" THEN Some(response_text) ELSE Some(<<>>),
         connect |-> IF agent_url \in DOMAIN m.clients THEN "cached"
                     ELSE IF at = "connect" THEN "failed" ELSE "opened",
         client |-> IF at = "connect" THEN None ELSE Some(clients1[agent_url])]

\* Messenger.talk_to_agent: the messenger afterwards, whether the call raised,
\* the value returned (a response text) or the message of the exception, what
\* lines 51-52 did about the connection ("cached": no connect; "opened":
\* ClientFactory.connect returned a handle; "failed": it raised), and the
\* client of line 54 that the message was sent on (None if connect failed)
talk_to_agent(m, agent_url, message, env) ==
    LET at == RaisedAt(m, agent_url, env)
        clients1 == IF agent_url \notin DOMAIN m.clients /\ at # "connect"
                    THEN DictSet(m.clients, agent_url, env.handle)
                    ELSE m.clients
        task_id == IF at \in {"connect", "send"} THEN None ELSE env.task_id
        response_text == ResponseText(env.events)
        trace == IF at = "none"
                 THEN TraceData(agent_url, message, response_text, Some(200), None, task_id)
                 ELSE TraceData(agent_url, message, <<>>, None, Some(env.exc), task_id)
    IN  [messenger |-> [traces |-> Append(m.traces, trace), clients |-> clients1],
         raised |-> at # "none",
         value |-> IF at = "none" THEN Some(response_text) ELSE Some(env.exc),
         connect |-> IF agent_url \in DOMAIN m.clients THEN "cached"
                     ELSE IF at = "connect" THEN "failed" ELSE "opened",
         client |-> IF at = "connect" THEN None ELSE Some(clients1[agent_url])]

\* Messenger.get_traces
get_traces(m) == m.traces

\* close() without the try/except around the client's close: the first
\* failing close escapes and the cache is not cleared
close_call_unguarded(m) ==
    IF \E u \in DOMAIN m.clients : m.clients[u] = "raises"
    THEN [messenger |-> m, raised |-> TRUE,
          attempted |-> { u \in DOMAIN m.clients : m.clients[u] # "absent" }]
    ELSE [messenger |-> [m EXCEPT !.clients = EmptyDict], raised |-> FALSE,
          attempted |-> { u \in DOMAIN m.clients : m.clients[u] # "absent" }]

\* close() with one try/except around the whole loop: the first failing close
\* ends the loop, here met before any client whose close works
close_call_stops_at_failure(m) ==
    [messenger |-> [m EXCEPT !.clients = EmptyDict],
     raised |-> FALSE,
     attempted |-> IF \E u \in DOMAIN m.clients : m.clients[u] = "raises"
                   THEN { u \in DOMAIN m.clients : m.clients[u] = "raises" }
                   ELSE { u \in DOMAIN m.clients : m.clients[u] # "absent" }]

\* Messenger.close as a call: the close method of every cached client that has
\* one is awaited (lines 122-127), an Exception it raises is caught and logged
\* (lines 128-130), and the cache is cleared (line 133); the result is the
\* messenger afterwards, whether the call raised, and the endpoints whose
\* client's close was attempted
close_call(m) ==
    [messenger |-> [m EXCEPT !.clients = EmptyDict],
     raised |-> FALSE,
     attempted |-> { u \in DOMAIN m.clients : m.clients[u] # "absent" }]

\* Messenger.close: the messenger after the call
close(m) == close_call(m).messenger

\* whether close() awaits a remote close operation (some cached client has one)
CloseAwaits(m) == \E u \in DOMAIN m.clients : m.clients[u] # "absent"

(***************************************************************************)
(* Graph scorer (evals/graph.py)                                           *)
(***************************************************************************)
RECURSIVE SumOver(_, _)
\* sum of f[x] over the finite set S
SumOver(f, S) ==
    IF S = {} THEN 0
    ELSE LET x == CHOOSE y \in S : TRUE IN f[x] + SumOver(f, S \ {x})

\* build_graph adding the "evaluator" node before looking at the traces
build_graph_with_evaluator(traces) ==
    LET urls == { traces[k].agent_url : k \in 1..Len(traces) }
    IN  [nodes |-> urls \cup {"evaluator"},
         edges |-> { <<"evaluator", u>> : u \in urls },
         weight |-> [u \in urls |->
                       Cardinality({ k \in 1..Len(traces) : traces[k].agent_url = u })]]

\* GraphEvaluator.build_graph: agent urls as nodes, the "evaluator" node added
\* in the edge loop, one edge evaluator -> url whose weight counts the traces
build_graph(traces) ==
    LET urls == { traces[k].agent_url : k \in 1..Len(traces) }
        nodes == IF traces = <<>> THEN {} ELSE urls \cup {"evaluator"}
    IN  [nodes |-> nodes,
         edges |-> { <<"evaluator", u>> : u \in urls },
         weight |-> [u \in urls |->
                       Cardinality({ k \in 1..Len(traces) : traces[k].agent_url = u })]]

\* degree of a node of a directed graph: in-degree plus out-degree
Degree(g, v) ==
    Cardinality({ e \in g.edges : e[1] = v }) + Cardinality({ e \in g.edges : e[2] = v })

\* compute_metrics with the density computed whenever the graph has a node
compute_metrics_dense(g) ==
    LET node_count == Cardinality(g.nodes)
        edge_count == Cardinality(g.edges)
        deg == [v \in g.nodes |-> Degree(g, v)]
    IN  [node_count |-> node_count,
         edge_count |-> edge_count,
         avg_degree |-> IF node_count > 0
                        THEN Some(Frac(SumOver(deg, g.nodes), node_count)) ELSE None,
         density |-> IF node_count > 1
                     THEN Some(Frac(edge_count, node_count * (node_count - 1)))
                     ELSE IF node_count > 0 THEN Some(Frac(0, 1)) ELSE None,
         centrality_scores |->
             IF node_count > 0
             THEN Some([v \in g.nodes |->
                          IF node_count <= 1 THEN Frac(1, 1)
                          ELSE Frac(deg[v], node_count - 1)])
             ELSE None]

\* GraphEvaluator.compute_metrics on a built graph (GraphMetrics.model_dump())
compute_metrics(g) ==
    LET node_count == Cardinality(g.nodes)
        edge_count == Cardinality(g.edges)
        deg == [v \in g.nodes |-> Degree(g, v)]
    IN  [node_count |-> node_count,
         edge_count |-> edge_count,
         avg_degree |-> IF node_count > 0
                        THEN Some(Frac(SumOver(deg, g.nodes), node_count)) ELSE None,
         density |-> IF node_count > 1
                     THEN Some(Frac(edge_count, node_count * (node_count - 1))) ELSE None,
         centrality_scores |->
             IF node_count > 0
             THEN Some([v \in g.nodes |->
                          IF node_count <= 1 THEN Frac(1, 1)
                          ELSE Frac(deg[v], node_count - 1)])
             ELSE None]

\* GraphEvaluator.compute_metrics before any build_graph (self._graph is None)
EmptyMetrics ==
    [node_count |-> 0, edge_count |-> 0, avg_degree |-> None, density |-> None,
     centrality_scores |-> None]

\* GraphEvaluator.get_metrics on an evaluator whose _graph field is graph
\* (None until the first build_graph)
GraphEvaluator_get_metrics(graph) ==
    IF graph = None THEN EmptyMetrics ELSE compute_metrics(graph[1])

(***************************************************************************)
(* Judgment scorer (evals/llm_judge.py)                                    *)
(***************************************************************************)
LLMJudgment(overall_score, reasoning, coordination_quality, strengths, weaknesses) ==
    [overall_score |-> overall_score, reasoning |-> reasoning,
     coordination_quality |-> coordination_quality,
     strengths |-> strengths, weaknesses |-> weaknesses]

\* Python truthiness of an Optional[str]: set and not the empty string
Truthy(opt) == opt # None /\ opt[1] # ""

\* the `strengths if strengths else None` of _fallback_evaluate
ListOrNone(l) == IF l = <<>> THEN None ELSE Some(l)

\* the reasoning f-string of _fallback_evaluate, as its parts:
\* "Agent demonstrated {word} coordination with {rate:.0%} success rate across
\* {n} interactions" and, iff error_count > 0, ". {error_count} errors encountered"
FallbackReasoning(word, rate, n, error_count) ==
    [word |-> word, rate |-> rate, interactions |-> n,
     errors |-> IF error_count > 0 THEN Some(error_count) ELSE None]

\* _fallback_evaluate with the thresholds compared by > instead of >=
fallback_evaluate_strict(traces) ==
    LET total == Len(traces)
        successful == Cardinality({ k \in 1..total :
                          traces[k].status_code = Some(200) /\ ~Truthy(traces[k].error) })
        error_count == Cardinality({ k \in 1..total : Truthy(traces[k].error) })
        rate == IF total > 0 THEN Frac(successful, total) ELSE Frac(0, 1)
        gt(n, d) == rate[1] * d > n * rate[2]
        word == IF gt(9, 10) THEN "excellent" ELSE IF gt(7, 10) THEN "good"
                ELSE IF gt(5, 10) THEN "fair" ELSE "poor"
        quality == IF gt(9, 10) THEN "Excellent" ELSE IF gt(7, 10) THEN "Good"
                   ELSE IF gt(5, 10) THEN "Fair" ELSE "Poor"
    IN  LLMJudgment(rate, FallbackReasoning(word, rate, total, error_count),
                    Some(quality), None, None)

\* LLMJudge._fallback_evaluate
fallback_evaluate(traces) ==
    LET total == Len(traces)
        successful == Cardinality({ k \in 1..total :
                          traces[k].status_code = Some(200) /\ ~Truthy(traces[k].error) })
        error_count == Cardinality({ k \in 1..total : Truthy(traces[k].error) })
        rate == IF total > 0 THEN Frac(successful, total) ELSE Frac(0, 1)
        ge(n, d) == rate[1] * d >= n * rate[2]
    IN  IF ge(9, 10)
        THEN LLMJudgment(rate, FallbackReasoning("excellent", rate, total, error_count),
                 Some("Excellent"),
                 ListOrNone(<<"High success rate", "Consistent performance",
                              "Reliable communication">>),
                 ListOrNone(IF rate[1] = rate[2] THEN <<>>
                            ELSE <<"Minor occasional failures">>))
        ELSE IF ge(7, 10)
        THEN LLMJudgment(rate, FallbackReasoning("good", rate, total, error_count),
                 Some("Good"),
                 ListOrNone(<<"Mostly reliable", "Acceptable performance">>),
                 ListOrNone(<<"Some failed interactions", "Room for improvement">>))
        ELSE IF ge(5, 10)
        THEN LLMJudgment(rate, FallbackReasoning("fair", rate, total, error_count),
                 Some("Fair"),
                 ListOrNone(<<"Basic functionality working">>),
                 ListOrNone(<<"High failure rate", "Inconsistent reliability",
                              "Needs improvement">>))
        ELSE LLMJudgment(rate, FallbackReasoning("poor", rate, total, error_count),
                 Some("Poor"),
                 ListOrNone(<<>>),
                 ListOrNone(<<"Very high failure rate", "Unreliable communication",
                              "Significant coordination issues">>))

\* the judgment returned for an empty trace list
EmptyJudgment ==
    LLMJudgment(Frac(0, 1), [text |-> "No traces available for evaluation"],
                Some("None"), Some(<<>>), Some(<<"No agent interactions captured">>))

(* What the environment does during one LLMJudge.evaluate call:            *)
(*   api_key  whether AGENTBEATS_LLM_API_KEY is set                        *)
(*   reply    "raises" (transport error), "timeout", "no_content" (the     *)
(*            completion has no content), "not_json" (json.loads fails),   *)
(*            "not_mapping" (the JSON is not an object), "invalid"         *)
(*            (LLMJudgment validation fails) or "valid"                    *)
(*   data     the parsed judgment of a valid reply                         *)
JudgeEnv(api_key, reply, data) == [api_key |-> api_key, reply |-> reply, data |-> data]

\* whether evaluate awaits the remote judge: traces present and a client exists
JudgeAwaits(traces, env) == traces # <<>> /\ env.api_key

\* the class of the exception raised inside the try block of evaluate for a
\* reply, None when the reply raises nothing
ReplyException(reply) ==
    CASE reply = "raises"      -> Some("APIConnectionError")
      [] reply = "timeout"     -> Some("TimeoutError")
      [] reply = "not_json"    -> Some("JSONDecodeError")
      [] reply = "invalid"     -> Some("ValidationError")
      [] reply = "not_mapping" -> Some("TypeError")
      [] OTHER                 -> None

\* the classes named by the inner except clause (line 221)
InnerCaught == { "JSONDecodeError", "ValidationError" }

\* the classes matched by `except Exception` (line 227): every class above
OuterCaught ==
    { "APIConnectionError", "TimeoutError", "JSONDecodeError", "ValidationError",
      "TypeError" }

\* evaluate with the outer `except Exception` clause missing
evaluate_call_propagates(traces, env) ==
    IF traces = <<>>
    THEN [value |-> Some(EmptyJudgment), raised |-> None, attempts |-> 0]
    ELSE IF ~env.api_key
    THEN [value |-> Some(fallback_evaluate(traces)), raised |-> None, attempts |-> 0]
    ELSE LET exc == ReplyException(env.reply)
         IN  IF env.reply = "valid"
             THEN [value |-> Some(env.data), raised |-> None, attempts |-> 1]
             ELSE IF exc = None \/ exc[1] \in InnerCaught
             THEN [value |-> Some(fallback_evaluate(traces)), raised |-> None,
                   attempts |-> 1]
             ELSE [value |-> None, raised |-> exc, attempts |-> 1]

\* evaluate with the client looked up before the empty-list check, so that an
\* empty trace list is sent to the remote judge when a credential is set
evaluate_call_remote_first(traces, env) ==
    IF ~env.api_key
    THEN [value |-> Some(IF traces = <<>> THEN EmptyJudgment
                         ELSE fallback_evaluate(traces)),
          raised |-> None, attempts |-> 0]
    ELSE IF env.reply = "valid"
    THEN [value |-> Some(env.data), raised |-> None, attempts |-> 1]
    ELSE [value |-> Some(IF traces = <<>> THEN EmptyJudgment
                         ELSE fallback_evaluate(traces)),
          raised |-> None, attempts |-> 1]

\* LLMJudge.evaluate as a call: the judgment returned (None if the call
\* raised), the class of the exception that escaped (None if none did), and
\* the number of chat.completions.create calls made
evaluate_call(traces, env) ==
    IF traces = <<>>
    THEN [value |-> Some(EmptyJudgment), raised |-> None, attempts |-> 0]
    ELSE IF ~env.api_key
    THEN [value |-> Some(fallback_evaluate(traces)), raised |-> None, attempts |-> 0]
    ELSE LET exc == ReplyException(env.reply)
         IN  IF env.reply = "valid"
             THEN [value |-> Some(env.data), raised |-> None, attempts |-> 1]
             ELSE IF exc = None \/ exc[1] \in InnerCaught \/ exc[1] \in OuterCaught
             THEN [value |-> Some(fallback_evaluate(traces)), raised |-> None,
                   attempts |-> 1]
             ELSE [value |-> None, raised |-> exc, attempts |-> 1]

\* LLMJudge.evaluate: the judgment it returns
evaluate(traces, env) == evaluate_call(traces, env).value[1]

(***************************************************************************)
(* Similarity scorer (evals/text_metrics.py)                               *)
(***************************************************************************)
IsSpace(c) == c = " "

\* str.lower() on the model's alphabet
Lower(s) == [k \in 1..Len(s) |-> IF s[k] = "A" THEN "a" ELSE s[k]]

\* set(str.split()): the maximal runs of non-whitespace characters
TokenSet(s) ==
    { SubSeq(s, i, j) : <<i, j>> \in
        { p \in (1..Len(s)) \X (1..Len(s)) :
            /\ p[1] <= p[2]
            /\ \A k \in p[1]..p[2] : ~IsSpace(s[k])
            /\ (p[1] = 1 \/ IsSpace(s[p[1] - 1]))
            /\ (p[2] = Len(s) \/ IsSpace(s[p[2] + 1])) } }

Min(a, b) == IF a <= b THEN a ELSE b

Max(a, b) == IF a >= b THEN a ELSE b

\* max(0.0, min(1.0, x)) on a fraction with positive denominator
Clamp01(x) ==
    IF x[1] < 0 THEN Frac(0, 1) ELSE IF x[1] > x[2] THEN Frac(1, 1) ELSE x

TextMetricsResult(similarity_score, response, reference, method, token_overlap, length_ratio) ==
    [similarity_score |-> similarity_score, response |-> response,
     reference |-> reference, method |-> Some(method),
     details |-> Some([token_overlap |-> token_overlap, length_ratio |-> length_ratio])]

\* TextMetrics.evaluate comparing the token sets without lower-casing
TextMetrics_evaluate_case_sensitive(response, reference) ==
    IF response = <<>> /\ reference = <<>>
    THEN TextMetricsResult(Frac(1, 1), response, reference, "exact", Frac(1, 1), Frac(1, 1))
    ELSE IF response = <<>> \/ reference = <<>>
    THEN TextMetricsResult(Frac(0, 1), response, reference, "exact", Frac(0, 1), Frac(0, 1))
    ELSE IF response = reference
    THEN TextMetricsResult(Frac(1, 1), response, reference, "exact", Frac(1, 1), Frac(1, 1))
    ELSE
      LET response_tokens == TokenSet(response)
          reference_tokens == TokenSet(reference)
          union == Cardinality(response_tokens \cup reference_tokens)
          token_overlap ==
              IF union > 0
              THEN Frac(Cardinality(response_tokens \cap reference_tokens), union)
              ELSE Frac(1, 1)
          mx == Max(Len(response), Len(reference))
          length_ratio == Frac(Min(Len(response), Len(reference)), mx)
          similarity_score ==
              Frac(7 * token_overlap[1] * length_ratio[2] + 3 * length_ratio[1] * token_overlap[2],
                   10 * token_overlap[2] * length_ratio[2])
      IN  TextMetricsResult(Clamp01(similarity_score), response, reference,
                            "token_overlap", token_overlap, length_ratio)

\* TextMetrics.evaluate scoring two empty token sets as no overlap
TextMetrics_evaluate_empty_sets_differ(response, reference) ==
    IF response = <<>> /\ reference = <<>>
    THEN TextMetricsResult(Frac(1, 1), response, reference, "exact", Frac(1, 1), Frac(1, 1))
    ELSE IF response = <<>> \/ reference = <<>>
    THEN TextMetricsResult(Frac(0, 1), response, reference, "exact", Frac(0, 1), Frac(0, 1))
    ELSE IF response = reference
    THEN TextMetricsResult(Frac(1, 1), response, reference, "exact", Frac(1, 1), Frac(1, 1))
    ELSE
      LET response_tokens == TokenSet(Lower(response))
          reference_tokens == TokenSet(Lower(reference))
          union == Cardinality(response_tokens \cup reference_tokens)
          token_overlap ==
              IF response_tokens # {} \/ reference_tokens # {}
              THEN IF union > 0
                   THEN Frac(Cardinality(response_tokens \cap reference_tokens), union)
                   ELSE Frac(0, 1)
              ELSE Frac(0, 1)
          mx == Max(Len(response), Len(reference))
          length_ratio == IF mx > 0 THEN Frac(Min(Len(response), Len(reference)), mx)
                          ELSE Frac(1, 1)
          \* 0.7 * token_overlap + 0.3 * length_ratio
          similarity_score ==
              Frac(7 * token_overlap[1] * length_ratio[2] + 3 * length_ratio[1] * token_overlap[2],
                   10 * token_overlap[2] * length_ratio[2])
      IN  TextMetricsResult(Clamp01(similarity_score), response, reference,
                            "token_overlap", token_overlap, length_ratio)

\* TextMetrics.evaluate
TextMetrics_evaluate(response, reference) ==
    IF response = <<>> /\ reference = <<>>
    THEN TextMetricsResult(Frac(1, 1), response, reference, "exact", Frac(1, 1), Frac(1, 1))
    ELSE IF response = <<>> \/ reference = <<>>
    THEN TextMetricsResult(Frac(0, 1), response, reference, "exact", Frac(0, 1), Frac(0, 1))
    ELSE IF response = reference
    THEN TextMetricsResult(Frac(1, 1), response, reference, "exact", Frac(1, 1), Frac(1, 1))
    ELSE
      LET response_tokens == TokenSet(Lower(response))
          reference_tokens == TokenSet(Lower(reference))
          union == Cardinality(response_tokens \cup reference_tokens)
          token_overlap ==
              IF response_tokens # {} \/ reference_tokens # {}
              THEN IF union > 0
                   THEN Frac(Cardinality(response_tokens \cap reference_tokens), union)
                   ELSE Frac(0, 1)
              ELSE Frac(1, 1)
          mx == Max(Len(response), Len(reference))
          length_ratio == IF mx > 0 THEN Frac(Min(Len(response), Len(reference)), mx)
                          ELSE Frac(1, 1)
          \* 0.7 * token_overlap + 0.3 * length_ratio
          similarity_score ==
              Frac(7 * token_overlap[1] * length_ratio[2] + 3 * length_ratio[1] * token_overlap[2],
                   10 * token_overlap[2] * length_ratio[2])
      IN  TextMetricsResult(Clamp01(similarity_score), response, reference,
                            "token_overlap", token_overlap, length_ratio)

(***************************************************************************)
(* Task coordinator (executor.py)                                          *)
(***************************************************************************)
TaskIds == { "A", "B" }

\* the environments of a send drawn while an Executor runs
ExecTalkEnvs ==
    { TalkEnv(f, "Connection failed", "ok", None, ev) :
        f \in {"none", "connect"},
        ev \in { <<>>,
                 << [state |-> "working", output |-> None],
                    [state |-> "completed", output |-> Some(<<"a">>)] >>,
                 << [state |-> "completed", output |-> Some(<<"a", " ", "b">>)] >> } }

\* the environments of a judge call drawn while an Executor runs
ExecJudgeReplies ==
    { JudgeEnv(TRUE, "raises", None),
      JudgeEnv(TRUE, "valid",
               LLMJudgment(Frac(1, 2), [text |-> "remote"], Some("Fair"), None, None)) }

\* str(e) of an exception raised by a scorer or by the orchestration itself
FaultMessages == { "boom" }

\* the message lists handed to execute; the k-th message is named by the number
\* k, so that the messages of one list are distinct
MessageLists == { [k \in 1..n |-> k] : n \in 0..MaxMsgs }

VARIABLES
    tasks,       \* Executor._tasks: task id -> TaskStatus
    calls,       \* the frames of the execute coroutines, by call name
    running,     \* the coroutine that holds the event loop, "none" if none does
    lastCancel,  \* Some([task_id, returned]) right after a cancel_task call, else None
    msgr,        \* a stand-alone Messenger
    mlog,        \* history: the talk_to_agent calls made on msgr
    pool,        \* history: the connects and the close calls made on msgr
    sc           \* the last call of a scorer or of Agent.run, with its result

vars == <<tasks, calls, running, lastCancel, msgr, mlog, pool, sc>>

execVars == <<tasks, calls, running, lastCancel>>

msgrVars == <<msgr, mlog, pool>>

scVars == <<sc>>

TaskStatus(task_id, state, progress, message, error) ==
    [task_id |-> task_id, state |-> state, progress |-> progress,
     message |-> message, error |-> error]

TaskResult(task_id, state, results, duration_seconds) ==
    [task_id |-> task_id, state |-> state, results |-> results,
     artifacts |-> None, duration_seconds |-> duration_seconds]

\* time.time() - start_time: some elapsed time
Elapsed == Some("elapsed")

\* the frame of an execute call that has not begun
IdleFrame ==
    [pc |-> "idle", task_id |-> "A", agent_url |-> "http://a", messages |-> <<>>,
     i |-> 0, messenger |-> NewMessenger, traces |-> <<>>,
     tier1 |-> None, tier2 |-> None, tier3 |-> None, exc |-> None, result |-> None,
     \* history of this call
     wrote |-> <<>>,    \* the states it wrote to its task's record, in order
     sent |-> <<>>,     \* the messages it passed to talk_to_agent, in order
     failedSends |-> 0, \* how many of those calls raised
     raisedTiers |-> EmptyDict, \* the tiers whose scorer raised -> str(e)
     closes |-> 0,      \* how many times it invoked Messenger.close
     closed |-> 0,      \* how many of those invocations have finished
     canceled |-> FALSE,\* cancel_task returned True for its id while it was suspended
     cancelSeen |-> FALSE, \* cancel_task was called with its id while it was suspended
     alone |-> TRUE     \* its id was unknown when it began, and no other execute
                        \* call has begun for that id since
    ]

\* self._tasks[task_id] = status, with the write recorded in the frame's history
WriteStatus(f, status) == [f EXCEPT !.wrote = Append(@, status.state)]

\* lines 59-78: register the task as pending, create the Messenger, enter the
\* try block and record working with progress 0.0
execute_begin(c, task_id, agent_url, messages) ==
    /\ running = "none"
    /\ calls[c].pc \in {"idle", "returned"}
    /\ LET s0 == TaskStatus(task_id, "pending", None, <<"Task created">>, None)
           s1 == TaskStatus(task_id, "working", Some(Frac(0, 1)),
                            <<"Starting evaluation">>, None)
           f0 == [IdleFrame EXCEPT !.pc = "loop", !.task_id = task_id,
                                   !.agent_url = agent_url, !.messages = messages,
                                   !.alone = task_id \notin DOMAIN tasks]
       IN  /\ tasks' = DictSet(DictSet(tasks, task_id, s0), task_id, s1)
           /\ calls' = [d \in DOMAIN calls |->
                  IF d = c THEN WriteStatus(WriteStatus(f0, s0), s1)
                  ELSE IF calls[d].pc # "idle" /\ calls[d].task_id = task_id
                  THEN [calls[d] EXCEPT !.alone = FALSE]
                  ELSE calls[d]]
    /\ running' = c
    /\ lastCancel' = None
    /\ UNCHANGED <<msgrVars, scVars>>

\* lines 81-84: the next message, if any, is handed to talk_to_agent, which
\* suspends on the remote exchange
execute_send(c) ==
    /\ running = c
    /\ calls[c].pc = "loop"
    /\ calls[c].i < Len(calls[c].messages)
    /\ calls' = [calls EXCEPT ![c].pc = "await_send",
                              ![c].sent = Append(@, calls[c].messages[calls[c].i + 1])]
    /\ running' = "none"
    /\ UNCHANGED <<tasks, lastCancel, msgrVars, scVars>>

\* execute_sent with the progress update recording the state pending
execute_sent_resets(c, env) ==
    /\ running = "none"
    /\ calls[c].pc = "await_send"
    /\ LET f == calls[c]
           r == talk_to_agent(f.messenger, f.agent_url, f.messages[f.i + 1], env)
           st == TaskStatus(f.task_id, "pending",
                            Some(Frac(f.i + 1, Len(f.messages) + 3)),
                            <<"Processed message", f.i + 1, Len(f.messages)>>, None)
       IN  /\ tasks' = DictSet(tasks, f.task_id, st)
           /\ calls' = [calls EXCEPT ![c] =
                  [f EXCEPT !.pc = "loop", !.i = f.i + 1, !.messenger = r.messenger,
                            !.failedSends = IF r.raised THEN @ + 1 ELSE @,
                            !.wrote = Append(@, "pending")]]
    /\ running' = c
    /\ lastCancel' = None
    /\ UNCHANGED <<msgrVars, scVars>>

\* execute_sent without the inner try/except: an exception of talk_to_agent
\* reaches the handler of line 151
execute_sent_aborts(c, env) ==
    /\ running = "none"
    /\ calls[c].pc = "await_send"
    /\ LET f == calls[c]
           r == talk_to_agent(f.messenger, f.agent_url, f.messages[f.i + 1], env)
           st == TaskStatus(f.task_id, "working",
                            Some(Frac(f.i + 1, Len(f.messages) + 3)),
                            <<"Processed message", f.i + 1, Len(f.messages)>>, None)
       IN  IF r.raised
           THEN /\ tasks' = tasks
                /\ calls' = [calls EXCEPT ![c] =
                       [f EXCEPT !.pc = "except", !.exc = r.value,
                                 !.messenger = r.messenger, !.failedSends = @ + 1]]
           ELSE /\ tasks' = DictSet(tasks, f.task_id, st)
                /\ calls' = [calls EXCEPT ![c] =
                       [f EXCEPT !.pc = "loop", !.i = f.i + 1,
                                 !.messenger = r.messenger,
                                 !.wrote = Append(@, "working")]]
    /\ running' = c
    /\ lastCancel' = None
    /\ UNCHANGED <<msgrVars, scVars>>

\* execute_sent with cooperative cancellation: a task found canceled after a
\* send stops and returns a result without results
execute_sent_stops_when_canceled(c, env) ==
    /\ running = "none"
    /\ calls[c].pc = "await_send"
    /\ LET f == calls[c]
           r == talk_to_agent(f.messenger, f.agent_url, f.messages[f.i + 1], env)
           st == TaskStatus(f.task_id, "working",
                            Some(Frac(f.i + 1, Len(f.messages) + 3)),
                            <<"Processed message", f.i + 1, Len(f.messages)>>, None)
       IN  IF tasks[f.task_id].state = "canceled"
           THEN /\ tasks' = tasks
                /\ calls' = [calls EXCEPT ![c] =
                       [f EXCEPT !.pc = "finally", !.messenger = r.messenger,
                                 !.result = Some([task_id |-> f.task_id,
                                                  state |-> "canceled", results |-> None,
                                                  artifacts |-> None,
                                                  duration_seconds |-> Some("elapsed")])]]
           ELSE /\ tasks' = DictSet(tasks, f.task_id, st)
                /\ calls' = [calls EXCEPT ![c] =
                       [f EXCEPT !.pc = "loop", !.i = f.i + 1,
                                 !.messenger = r.messenger,
                                 !.failedSends = IF r.raised THEN @ + 1 ELSE @,
                                 !.wrote = Append(@, "working")]]
    /\ running' = c
    /\ lastCancel' = None
    /\ UNCHANGED <<msgrVars, scVars>>

\* execute_sent computing the progress without the three scoring steps
execute_sent_unbudgeted(c, env) ==
    /\ running = "none"
    /\ calls[c].pc = "await_send"
    /\ LET f == calls[c]
           r == talk_to_agent(f.messenger, f.agent_url, f.messages[f.i + 1], env)
           st == TaskStatus(f.task_id, "working",
                            Some(Frac(f.i + 1, Len(f.messages))),
                            <<"Processed message", f.i + 1, Len(f.messages)>>, None)
       IN  /\ tasks' = DictSet(tasks, f.task_id, st)
           /\ calls' = [calls EXCEPT ![c] =
                  WriteStatus([f EXCEPT !.pc = "loop", !.i = f.i + 1,
                                        !.messenger = r.messenger,
                                        !.failedSends = IF r.raised THEN @ + 1 ELSE @],
                              st)]
    /\ running' = c
    /\ lastCancel' = None
    /\ UNCHANGED <<msgrVars, scVars>>

\* execute_sent with one Messenger held by the Executor and used by every call
execute_sent_shared(c, env) ==
    /\ running = "none"
    /\ calls[c].pc = "await_send"
    /\ LET f == calls[c]
           r == talk_to_agent(f.messenger, f.agent_url, f.messages[f.i + 1], env)
           st == TaskStatus(f.task_id, "working",
                            Some(Frac(f.i + 1, Len(f.messages) + 3)),
                            <<"Processed message", f.i + 1, Len(f.messages)>>, None)
       IN  /\ tasks' = DictSet(tasks, f.task_id, st)
           /\ calls' = [d \in DOMAIN calls |->
                  IF d = c
                  THEN WriteStatus([f EXCEPT !.pc = "loop", !.i = f.i + 1,
                                        !.messenger = r.messenger,
                                        !.failedSends = IF r.raised THEN @ + 1 ELSE @],
                              st)
                  ELSE [calls[d] EXCEPT !.messenger = r.messenger]]
    /\ running' = c
    /\ lastCancel' = None
    /\ UNCHANGED <<msgrVars, scVars>>

\* lines 84-96: talk_to_agent returns or raises (the exception is dropped), and
\* the progress (i + 1) / (len(messages) + 3) is recorded
execute_sent(c, env) ==
    /\ running = "none"
    /\ calls[c].pc = "await_send"
    /\ LET f == calls[c]
           r == talk_to_agent(f.messenger, f.agent_url, f.messages[f.i + 1], env)
           st == TaskStatus(f.task_id, "working",
                            Some(Frac(f.i + 1, Len(f.messages) + 3)),
                            <<"Processed message", f.i + 1, Len(f.messages)>>, None)
       IN  /\ tasks' = DictSet(tasks, f.task_id, st)
           /\ calls' = [calls EXCEPT ![c] =
                  WriteStatus([f EXCEPT !.pc = "loop", !.i = f.i + 1,
                                        !.messenger = r.messenger,
                                        !.failedSends = IF r.raised THEN @ + 1 ELSE @],
                              st)]
    /\ running' = c
    /\ lastCancel' = None
    /\ UNCHANGED <<msgrVars, scVars>>

\* execute_get_traces leaving the send loop after the first message
execute_get_traces_early(c) ==
    /\ running = c
    /\ calls[c].pc = "loop"
    /\ calls[c].i >= Min(1, Len(calls[c].messages))
    /\ LET f == calls[c]
           st == TaskStatus(f.task_id, "working", Some(Frac(6, 10)),
                            <<"Running Tier 1 graph evaluation">>, None)
       IN  /\ tasks' = DictSet(tasks, f.task_id, st)
           /\ calls' = [calls EXCEPT ![c] =
                  WriteStatus([f EXCEPT !.pc = "tier1",
                                        !.traces = get_traces(f.messenger)], st)]
    /\ UNCHANGED <<running, lastCancel, msgrVars, scVars>>

\* lines 98-106: the trace list is retrieved and tier 1 is announced
execute_get_traces(c) ==
    /\ running = c
    /\ calls[c].pc = "loop"
    /\ calls[c].i >= Len(calls[c].messages)
    /\ LET f == calls[c]
           st == TaskStatus(f.task_id, "working", Some(Frac(6, 10)),
                            <<"Running Tier 1 graph evaluation">>, None)
       IN  /\ tasks' = DictSet(tasks, f.task_id, st)
           /\ calls' = [calls EXCEPT ![c] =
                  WriteStatus([f EXCEPT !.pc = "tier1",
                                        !.traces = get_traces(f.messenger)], st)]
    /\ UNCHANGED <<running, lastCancel, msgrVars, scVars>>

\* an exception raised in the try block outside the guarded send loop and the
\* guarded tiers (here: by the call of line 98) reaches the handler of line 151
execute_raise(c, msg) ==
    /\ running = c
    /\ calls[c].pc = "loop"
    /\ calls[c].i >= Len(calls[c].messages)
    /\ calls' = [calls EXCEPT ![c].pc = "except", ![c].exc = Some(msg)]
    /\ UNCHANGED <<tasks, running, lastCancel, msgrVars, scVars>>

\* Executor._evaluate_tier1: the graph metrics of the traces, or the error
\* mapping when the scorer raises
evaluate_tier1(traces, fault) ==
    IF fault = None THEN compute_metrics(build_graph(traces))
    ELSE [error |-> fault[1], metrics |-> None]

\* Executor._evaluate_tier2
evaluate_tier2(traces, env, fault) ==
    IF fault = None THEN evaluate(traces, env)
    ELSE [error |-> fault[1], judgment |-> None]

\* _evaluate_tier3 comparing the last response with the one before it
evaluate_tier3_consecutive(traces, fault) ==
    IF fault # None THEN [error |-> fault[1], similarity_score |-> Frac(0, 1)]
    ELSE IF traces = <<>>
    THEN [error |-> "No traces available", similarity_score |-> Frac(0, 1)]
    ELSE IF Len(traces) >= 2
    THEN TextMetrics_evaluate(traces[Len(traces)].response,
                              traces[Len(traces) - 1].response)
    ELSE TextMetrics_evaluate(traces[1].response, traces[1].response)

\* Executor._evaluate_tier3
evaluate_tier3(traces, fault) ==
    IF fault # None THEN [error |-> fault[1], similarity_score |-> Frac(0, 1)]
    ELSE IF traces = <<>>
    THEN [error |-> "No traces available", similarity_score |-> Frac(0, 1)]
    ELSE IF Len(traces) >= 2
    THEN TextMetrics_evaluate(traces[Len(traces)].response, traces[1].response)
    ELSE TextMetrics_evaluate(traces[1].response, traces[1].response)

\* a scorer runs to its end (None) or raises an exception with some message
Faults == {None} \cup { Some(m) : m \in FaultMessages }

\* execute_tier1 without the try/except of _evaluate_tier1: an exception of the
\* graph scorer reaches the handler of line 151
execute_tier1_unguarded(c, fault) ==
    /\ running = c
    /\ calls[c].pc = "tier1"
    /\ LET f == calls[c]
           st == TaskStatus(f.task_id, "working", Some(Frac(8, 10)),
                            <<"Running Tier 2 LLM judge evaluation">>, None)
       IN  IF fault # None
           THEN /\ tasks' = tasks
                /\ calls' = [calls EXCEPT ![c] =
                       [f EXCEPT !.pc = "except", !.exc = fault,
                                 !.raisedTiers = DictSet(@, "tier1", fault[1])]]
           ELSE /\ tasks' = DictSet(tasks, f.task_id, st)
                /\ calls' = [calls EXCEPT ![c] =
                       [f EXCEPT !.pc = "tier2",
                                 !.tier1 = Some(compute_metrics(build_graph(f.traces))),
                                 !.wrote = Append(@, "working")]]
    /\ UNCHANGED <<running, lastCancel, msgrVars, scVars>>

\* lines 107-115: tier 1 runs, then tier 2 is announced
execute_tier1(c, fault) ==
    /\ running = c
    /\ calls[c].pc = "tier1"
    /\ LET f == calls[c]
           st == TaskStatus(f.task_id, "working", Some(Frac(8, 10)),
                            <<"Running Tier 2 LLM judge evaluation">>, None)
       IN  /\ tasks' = DictSet(tasks, f.task_id, st)
           /\ calls' = [calls EXCEPT ![c] =
                  WriteStatus([f EXCEPT !.pc = "tier2",
                                        !.tier1 = Some(evaluate_tier1(f.traces, fault)),
                                        !.raisedTiers = IF fault = None THEN @
                                                        ELSE DictSet(@, "tier1", fault[1])], st)]
    /\ UNCHANGED <<running, lastCancel, msgrVars, scVars>>

\* lines 116-124 when tier 2 makes no remote call (no traces, no credential, or
\* the scorer raises before it): tier 2 runs, then tier 3 is announced
execute_tier2(c, api_key, fault) ==
    /\ running = c
    /\ calls[c].pc = "tier2"
    /\ fault # None \/ ~JudgeAwaits(calls[c].traces, JudgeEnv(api_key, "raises", None))
    /\ LET f == calls[c]
           st == TaskStatus(f.task_id, "working", Some(Frac(9, 10)),
                            <<"Running Tier 3 text metrics evaluation">>, None)
       IN  /\ tasks' = DictSet(tasks, f.task_id, st)
           /\ calls' = [calls EXCEPT ![c] =
                  WriteStatus([f EXCEPT !.pc = "tier3",
                      !.tier2 = Some(evaluate_tier2(f.traces,
                                        JudgeEnv(api_key, "raises", None), fault)),
                      !.raisedTiers = IF fault = None THEN @ ELSE DictSet(@, "tier2", fault[1])], st)]
    /\ UNCHANGED <<running, lastCancel, msgrVars, scVars>>

\* line 116 when the judge is called remotely: execute is suspended on it
execute_tier2_await(c) ==
    /\ running = c
    /\ calls[c].pc = "tier2"
    /\ JudgeAwaits(calls[c].traces, JudgeEnv(TRUE, "raises", None))
    /\ calls' = [calls EXCEPT ![c].pc = "await_judge"]
    /\ running' = "none"
    /\ UNCHANGED <<tasks, lastCancel, msgrVars, scVars>>

\* lines 116-124: the remote judge has answered or failed; tier 3 is announced
execute_tier2_return(c, env, fault) ==
    /\ running = "none"
    /\ calls[c].pc = "await_judge"
    /\ LET f == calls[c]
           st == TaskStatus(f.task_id, "working", Some(Frac(9, 10)),
                            <<"Running Tier 3 text metrics evaluation">>, None)
       IN  /\ tasks' = DictSet(tasks, f.task_id, st)
           /\ calls' = [calls EXCEPT ![c] =
                  WriteStatus([f EXCEPT !.pc = "tier3",
                      !.tier2 = Some(evaluate_tier2(f.traces, env, fault)),
                      !.raisedTiers = IF fault = None THEN @ ELSE DictSet(@, "tier2", fault[1])], st)]
    /\ running' = c
    /\ lastCancel' = None
    /\ UNCHANGED <<msgrVars, scVars>>

\* lines 125-149: tier 3 runs, the results are aggregated, the task is recorded
\* as completed and the TaskResult to return is built
execute_tier3(c, fault) ==
    /\ running = c
    /\ calls[c].pc = "tier3"
    /\ LET f == calls[c]
           tier3_result == evaluate_tier3(f.traces, fault)
           results == [tier1_graph |-> f.tier1[1], tier2_llm_judge |-> f.tier2[1],
                       tier3_text_metrics |-> tier3_result]
           st == TaskStatus(f.task_id, "completed", Some(Frac(1, 1)),
                            <<"Evaluation completed successfully">>, None)
       IN  /\ tasks' = DictSet(tasks, f.task_id, st)
           /\ calls' = [calls EXCEPT ![c] =
                  WriteStatus([f EXCEPT !.pc = "finally",
                      !.tier3 = Some(tier3_result),
                      !.raisedTiers = IF fault = None THEN @ ELSE DictSet(@, "tier3", fault[1]),
                      !.result = Some(TaskResult(f.task_id, "completed",
                                                 Some(results), Elapsed))], st)]
    /\ UNCHANGED <<running, lastCancel, msgrVars, scVars>>

\* execute_except returning from the handler without reaching the finally block
execute_except_skips_close(c) ==
    /\ running = c
    /\ calls[c].pc = "except"
    /\ LET f == calls[c]
           st == TaskStatus(f.task_id, "failed", None,
                            <<"Task execution failed">>, f.exc)
       IN  /\ tasks' = DictSet(tasks, f.task_id, st)
           /\ calls' = [calls EXCEPT ![c] =
                  [f EXCEPT !.pc = "returned", !.wrote = Append(@, "failed"),
                      !.result = Some([task_id |-> f.task_id, state |-> "failed",
                                       results |-> None, artifacts |-> None,
                                       duration_seconds |-> Some("elapsed")])]]
    /\ running' = "none"
    /\ UNCHANGED <<lastCancel, msgrVars, scVars>>

\* execute_except returning the (empty) results gathered so far
execute_except_partial(c) ==
    /\ running = c
    /\ calls[c].pc = "except"
    /\ LET f == calls[c]
           st == TaskStatus(f.task_id, "failed", None,
                            <<"Task execution failed">>, f.exc)
       IN  /\ tasks' = DictSet(tasks, f.task_id, st)
           /\ calls' = [calls EXCEPT ![c] =
                  [f EXCEPT !.pc = "finally", !.wrote = Append(@, "failed"),
                      !.result = Some([task_id |-> f.task_id, state |-> "failed",
                                       results |-> Some(<<>>), artifacts |-> None,
                                       duration_seconds |-> Some("elapsed")])]]
    /\ UNCHANGED <<running, lastCancel, msgrVars, scVars>>

\* the except block returning the failed result without recording the state
execute_except_unrecorded(c) ==
    /\ running = c
    /\ calls[c].pc = "except"
    /\ LET f == calls[c]
       IN  calls' = [calls EXCEPT ![c] =
                  [f EXCEPT !.pc = "finally",
                      !.result = Some(TaskResult(f.task_id, "failed", None, Elapsed))]]
    /\ UNCHANGED <<tasks, running, lastCancel, msgrVars, scVars>>

\* lines 151-167: the handler records the task as failed, with str(e), and
\* builds a TaskResult without results
execute_except(c) ==
    /\ running = c
    /\ calls[c].pc = "except"
    /\ LET f == calls[c]
           st == TaskStatus(f.task_id, "failed", None,
                            <<"Task execution failed">>, f.exc)
       IN  /\ tasks' = DictSet(tasks, f.task_id, st)
           /\ calls' = [calls EXCEPT ![c] =
                  WriteStatus([f EXCEPT !.pc = "finally",
                      !.result = Some(TaskResult(f.task_id, "failed", None, Elapsed))],
                      st)]
    /\ UNCHANGED <<running, lastCancel, msgrVars, scVars>>

\* lines 169-171 when close() has a client to close: execute is suspended on it
execute_finally_await(c) ==
    /\ running = c
    /\ calls[c].pc = "finally"
    /\ CloseAwaits(calls[c].messenger)
    /\ calls' = [calls EXCEPT ![c].pc = "await_close", ![c].closes = @ + 1]
    /\ running' = "none"
    /\ UNCHANGED <<tasks, lastCancel, msgrVars, scVars>>

\* lines 169-171 when close() has nothing to await: the cache is cleared and
\* execute returns
execute_finally(c) ==
    /\ running = c
    /\ calls[c].pc = "finally"
    /\ ~CloseAwaits(calls[c].messenger)
    /\ calls' = [calls EXCEPT ![c].pc = "returned", ![c].closes = @ + 1,
                              ![c].closed = @ + 1,
                              ![c].messenger = close(calls[c].messenger)]
    /\ running' = "none"
    /\ UNCHANGED <<tasks, lastCancel, msgrVars, scVars>>

\* line 171: the awaited close() finishes, and execute returns
execute_closed(c) ==
    /\ running = "none"
    /\ calls[c].pc = "await_close"
    /\ calls' = [calls EXCEPT ![c].pc = "returned", ![c].closed = @ + 1,
                              ![c].messenger = close(calls[c].messenger)]
    /\ lastCancel' = None
    /\ UNCHANGED <<tasks, running, msgrVars, scVars>>

\* Executor.get_status
get_status(table, task_id) ==
    IF task_id \in DOMAIN table THEN Some(table[task_id]) ELSE None

\* cancel_task without the check of the current state
cancel_task_any_state(table, task_id) ==
    IF task_id \in DOMAIN table
    THEN [tasks |-> [table EXCEPT ![task_id] =
                       [task_id |-> task_id, state |-> "canceled", progress |-> <<>>,
                        message |-> <<"Task canceled by user">>, error |-> <<>>]],
          returned |-> TRUE]
    ELSE [tasks |-> table, returned |-> FALSE]

\* cancel_task refusing only a task that is already canceled
cancel_task_unless_canceled(table, task_id) ==
    IF task_id \in DOMAIN table /\ table[task_id].state # "canceled"
    THEN [tasks |-> DictSet(table, task_id,
                      TaskStatus(task_id, "canceled", None, <<"Task canceled by user">>, None)),
          returned |-> TRUE]
    ELSE [tasks |-> table, returned |-> FALSE]

\* cancel_task marking every unfinished task of the table, not only task_id
cancel_task_every_task(table, task_id) ==
    IF task_id \in DOMAIN table /\ table[task_id].state \in {"pending", "working"}
    THEN [tasks |-> [t \in DOMAIN table |->
                       IF table[t].state \in {"pending", "working"}
                       THEN TaskStatus(t, "canceled", None,
                                       <<"Task canceled by user">>, None)
                       ELSE table[t]],
          returned |-> TRUE]
    ELSE [tasks |-> table, returned |-> FALSE]

\* Executor.cancel_task on a task table: the table afterwards and the value returned
cancel_task(table, task_id) ==
    IF task_id \in DOMAIN table /\ table[task_id].state \in {"pending", "working"}
    THEN [tasks |-> DictSet(table, task_id,
                      TaskStatus(task_id, "canceled", None, <<"Task canceled by user">>, None)),
          returned |-> TRUE]
    ELSE [tasks |-> table, returned |-> FALSE]

\* the pcs at which an execute coroutine is suspended on remote I/O
Suspended == {"await_send", "await_judge", "await_close"}

\* a caller on the event loop calls cancel_task(task_id)
CancelTask(task_id) ==
    /\ running = "none"
    /\ LET r == cancel_task(tasks, task_id)
       IN  /\ tasks' = r.tasks
           /\ lastCancel' = Some([task_id |-> task_id, returned |-> r.returned])
           /\ calls' = [c \in DOMAIN calls |->
                  IF calls[c].task_id = task_id /\ calls[c].pc \in Suspended
                  THEN [calls[c] EXCEPT !.cancelSeen = TRUE,
                                        !.canceled = @ \/ r.returned]
                  ELSE calls[c]]
    /\ UNCHANGED <<running, msgrVars, scVars>>

Calls == { "c1" }

\* the history of a Messenger's connection pool right after construction:
\*   opened  endpoint -> the number of connects that succeeded for it since
\*           construction or the last close
\*   closes  the number of close calls made since the last talk_to_agent
\*   raised  whether one of those close calls raised
\*   before  the cache as it was before the first of those close calls
\*   attempts endpoint -> the number of times those close calls awaited the
\*           close method of its client
NewPool ==
    [opened |-> EmptyDict, closes |-> 0, raised |-> FALSE, before |-> EmptyDict,
     attempts |-> EmptyDict]

Init ==
    /\ tasks = EmptyDict
    /\ calls = [c \in Calls |-> IdleFrame]
    /\ running = "none"
    /\ lastCancel = None
    /\ msgr = NewMessenger
    /\ mlog = <<>>
    /\ pool = NewPool
    /\ sc = None

\* one step of the execute coroutine c
ExecStep(c) ==
    \/ \E t \in TaskIds, ms \in MessageLists : execute_begin(c, t, "http://a", ms)
    \/ execute_send(c)
    \/ \E env \in ExecTalkEnvs : execute_sent(c, env)
    \/ execute_get_traces(c)
    \/ \E m \in FaultMessages : execute_raise(c, m)
    \/ \E fault \in Faults : execute_tier1(c, fault)
    \/ \E k \in BOOLEAN, fault \in Faults : execute_tier2(c, k, fault)
    \/ execute_tier2_await(c)
    \/ \E env \in ExecJudgeReplies, fault \in Faults : execute_tier2_return(c, env, fault)
    \/ \E fault \in Faults : execute_tier3(c, fault)
    \/ execute_except(c)
    \/ execute_finally_await(c)
    \/ execute_finally(c)
    \/ execute_closed(c)

Next ==
    \/ \E c \in DOMAIN calls : ExecStep(c)
    \/ \E t \in TaskIds : CancelTask(t)

Spec == Init /\ [][Next]_vars

\* a step that continues an execute call already begun
ExecContinue(c) == calls[c].pc \notin {"idle", "returned"} /\ ExecStep(c)

\* the Executor when the event loop keeps running a coroutine that can run and
\* every remote interaction awaited (send, judge request, close) comes back
SpecL == Init /\ [][Next]_vars /\ \A c \in Calls : WF_vars(ExecContinue(c))


(***************************************************************************)
(* Two execute calls running concurrently on one event loop, each made     *)
(* once; no scorer raises and no credential is configured.                 *)
(***************************************************************************)
ConcCalls == { "c1", "c2" }

\* the environments of a send drawn while two calls run
ConcTalkEnvs ==
    { TalkEnv("none", "", "ok", None,
              << [state |-> "completed", output |-> Some(<<"a">>)] >>),
      TalkEnv("connect", "Connection failed", "ok", None, <<>>) }

InitC ==
    /\ tasks = EmptyDict
    /\ calls = [c \in ConcCalls |-> IdleFrame]
    /\ running = "none"
    /\ lastCancel = None
    /\ msgr = NewMessenger
    /\ mlog = <<>>
    /\ pool = NewPool
    /\ sc = None

\* one step of the execute coroutine c
ExecStepC(c) ==
    \/ /\ calls[c].pc = "idle"
       /\ \E t \in TaskIds, u \in Endpoints, ms \in MessageLists :
             execute_begin(c, t, u, ms)
    \/ execute_send(c)
    \/ \E env \in ConcTalkEnvs : execute_sent(c, env)
    \/ execute_get_traces(c)
    \/ execute_tier1(c, None)
    \/ execute_tier2(c, FALSE, None)
    \/ execute_tier3(c, None)
    \/ execute_finally_await(c)
    \/ execute_finally(c)
    \/ execute_closed(c)

NextC == \E c \in DOMAIN calls : ExecStepC(c)

SpecC == InitC /\ [][NextC]_vars

\* the longest message list of the execute calls followed for their progress
MaxSends == 5

\* the message lists of those calls
LongMessageLists == { [k \in 1..n |-> k] : n \in 0..MaxSends }

\* one step of an execute call in which no scorer raises and nothing cancels
ExecStepP(c) ==
    \/ /\ calls[c].pc = "idle"
       /\ \E ms \in LongMessageLists : execute_begin(c, "A", "http://a", ms)
    \/ execute_send(c)
    \/ \E env \in ConcTalkEnvs : execute_sent(c, env)
    \/ execute_get_traces(c)
    \/ execute_tier1(c, None)
    \/ execute_tier2(c, FALSE, None)
    \/ execute_tier3(c, None)
    \/ execute_finally_await(c)
    \/ execute_finally(c)
    \/ execute_closed(c)

NextP == \E c \in DOMAIN calls : ExecStepP(c)

\* one execute call on message lists long enough for the send-loop progress to
\* pass the first checkpoint
SpecP == Init /\ [][NextP]_vars

\* two execute calls for distinct task ids, with cancel_task called between
\* their steps
NextX ==
    \/ /\ NextC
       /\ \/ \E c \in DOMAIN calls : calls'[c].pc = "idle"
          \/ calls'["c1"].task_id # calls'["c2"].task_id
    \/ \E t \in TaskIds : CancelTask(t)

SpecX == InitC /\ [][NextX]_vars

(***************************************************************************)
(* A Messenger on its own: any sequence of talk_to_agent and close calls.  *)
(***************************************************************************)
Working == [state |-> "working", output |-> None]

Completed(output) == [state |-> "completed", output |-> output]

\* the environments of a send drawn for the stand-alone Messenger
MsgrTalkEnvs ==
    { TalkEnv("none", "", h, Some("t-1"), <<Working, Completed(Some(<<"a">>))>>) :
        h \in {"ok", "raises", "absent"} }
    \cup
    { TalkEnv("none", "", "ok", None,
              <<Completed(Some(<<"a", " ", "b">>)), Completed(Some(<<"a">>))>>),
      TalkEnv("none", "", "ok", Some("t-1"), <<Working>>),
      TalkEnv("none", "", "ok", None, <<Completed(None)>>),
      TalkEnv("connect", "Connection failed", "ok", None, <<>>),
      TalkEnv("send", "", "ok", None, <<>>),
      TalkEnv("stream", "Connection failed", "ok", Some("t-1"), <<Working>>),
      TalkEnv("stream", "Connection failed", "ok", Some("t-1"),
              <<Completed(Some(<<"a">>))>>) }

\* a caller awaits msgr.talk_to_agent(agent_url, message)
MTalk(agent_url, message, env) ==
    /\ Len(mlog) < MaxCalls
    /\ LET r == talk_to_agent(msgr, agent_url, message, env)
       IN  /\ msgr' = r.messenger
           /\ mlog' = Append(mlog, [agent_url |-> agent_url, message |-> message,
                                    raised |-> r.raised, value |-> r.value,
                                    connect |-> r.connect, client |-> r.client,
                                    terminal |-> FirstCompleted(env.events) # 0,
                                    events |-> env.events,
                                    fail |-> env.fail])
           /\ pool' = [opened |->
                          IF r.connect = "opened"
                          THEN DictSet(pool.opened, agent_url,
                                  IF agent_url \in DOMAIN pool.opened
                                  THEN pool.opened[agent_url] + 1 ELSE 1)
                          ELSE pool.opened,
                       closes |-> 0, raised |-> FALSE, before |-> EmptyDict,
                       attempts |-> EmptyDict]
    /\ UNCHANGED <<execVars, scVars>>

\* a caller awaits msgr.close()
MClose ==
    /\ pool.closes < MaxCloses
    /\ LET r == close_call(msgr)
       IN  /\ msgr' = r.messenger
           /\ pool' = [opened |-> IF r.messenger.clients = EmptyDict
                                  THEN EmptyDict ELSE pool.opened,
                       closes |-> pool.closes + 1,
                       raised |-> pool.raised \/ r.raised,
                       before |-> IF pool.closes = 0 THEN msgr.clients
                                  ELSE pool.before,
                       attempts |->
                          [u \in DOMAIN pool.attempts \cup r.attempted |->
                              (IF u \in DOMAIN pool.attempts
                               THEN pool.attempts[u] ELSE 0)
                              + (IF u \in r.attempted THEN 1 ELSE 0)]]
    /\ UNCHANGED <<mlog, execVars, scVars>>

NextM ==
    \/ \E u \in Endpoints, m \in Messages, env \in MsgrTalkEnvs : MTalk(u, m, env)
    \/ MClose

SpecM == Init /\ [][NextM]_vars

(***************************************************************************)
(* The scorers and Agent.run on their own: a behaviour is one call, on     *)
(* inputs drawn from the sets below, which leaves the call and its result  *)
(* in sc.                                                                  *)
(***************************************************************************)
\* a trace as the success path of talk_to_agent records it
OkTrace(agent_url, response) ==
    TraceData(agent_url, "m1", response, Some(200), None, Some("t-1"))

\* a trace as the except path of talk_to_agent records it
FailTrace(agent_url, error) ==
    TraceData(agent_url, "m1", <<>>, None, Some(error), None)

\* the sequences over S of length at most n
SeqsUpTo(S, n) == UNION { [1..k -> S] : k \in 0..n }

\* the failure traces of the fallback inputs, varied by position: an
\* exception with a message, an exception with the empty message, and a
\* trace built by another caller with a status other than 200 and no error
FailKind(k) ==
    CASE k % 3 = 0 -> FailTrace("http://a", "Connection failed")
      [] k % 3 = 1 -> FailTrace("http://b", "")
      [] OTHER     -> TraceData("http://a", "m2", <<>>, Some(500), None, None)

\* the trace lists handed to the judge: n traces of which s succeeded, the
\* successes first or last
JudgeTraceLists ==
    {<<>>} \cup
    { [k \in 1..n |-> IF (okFirst /\ k <= s) \/ (~okFirst /\ k > n - s)
                      THEN OkTrace("http://a", <<"a">>) ELSE FailKind(k)] :
        n \in 1..MaxTraces, s \in 0..MaxTraces, okFirst \in BOOLEAN }

\* the judgment a valid remote reply parses to
RemoteJudgment ==
    LLMJudgment(Frac(1, 2), [text |-> "remote"], Some("Fair"), None, None)

\* the judgments that replies accepted by LLMJudgment(**judgment_data) parse
\* to: the model declares overall_score: float and reasoning: str and nothing
\* more, so any number and any string pass
RemoteJudgments ==
    { RemoteJudgment,
      LLMJudgment(Frac(3, 2), [text |-> "remote"], Some("Excellent"), None, None),
      LLMJudgment(Frac(-1, 2), [text |-> "remote"], None, None, None),
      LLMJudgment(Frac(1, 2), [text |-> ""], None, None, None) }

\* the environments of a judge call
ScJudgeEnvs ==
    { JudgeEnv(k, r, None) :
        k \in BOOLEAN,
        r \in {"raises", "timeout", "no_content", "not_json", "not_mapping",
               "invalid"} }
    \cup { JudgeEnv(k, "valid", j) : k \in BOOLEAN, j \in RemoteJudgments }

\* a caller awaits LLMJudge().evaluate(traces)
SJudge(traces, env) ==
    /\ sc = None
    /\ sc' = Some([op |-> "evaluate", traces |-> traces, env |-> env,
                   r |-> evaluate_call(traces, env)])
    /\ UNCHANGED <<execVars, msgrVars>>

\* a caller calls LLMJudge()._fallback_evaluate(traces)
SFallback(traces) ==
    /\ sc = None
    /\ sc' = Some([op |-> "fallback", traces |-> traces,
                   r |-> fallback_evaluate(traces)])
    /\ UNCHANGED <<execVars, msgrVars>>

\* the trace lists handed to the similarity tier
TierTraceLists ==
    SeqsUpTo({ OkTrace("http://a", r) : r \in Texts \cup {<<"b">>} }
             \cup { FailTrace("http://a", "Connection failed") }, MaxTier)

\* a caller awaits Executor()._evaluate_tier3(traces)
STier3(traces, fault) ==
    /\ sc = None
    /\ sc' = Some([op |-> "tier3", traces |-> traces, fault |-> fault,
                   r |-> evaluate_tier3(traces, fault)])
    /\ UNCHANGED <<execVars, msgrVars>>

\* the texts handed to the similarity scorer: every text of at most MaxLen
\* characters over a small alphabet, and some texts of other words
TextInputs ==
    SeqsUpTo({"a", "A", " "}, MaxLen)
    \cup { <<"b">>, <<"a", " ", "b">>, <<"b", " ", "A">>,
           <<"a", " ", "b", " ", "c">>, <<"d", " ", "e", " ", "f">> }

\* a caller calls TextMetrics().evaluate(response, reference)
SText(response, reference) ==
    /\ sc = None
    /\ sc' = Some([op |-> "text", response |-> response, reference |-> reference,
                   r |-> TextMetrics_evaluate(response, reference)])
    /\ UNCHANGED <<execVars, msgrVars>>

\* the endpoints of the traces handed to the graph scorer: agent_url is any str
GraphEndpoints == Endpoints \cup { "evaluator" }

\* the trace lists handed to the graph scorer
GraphTraceLists ==
    SeqsUpTo({ OkTrace(u, <<"a">>) : u \in GraphEndpoints }
             \cup { FailTrace(u, "Connection failed") : u \in GraphEndpoints }, MaxTier)

\* a caller calls GraphEvaluator().build_graph(traces) and then get_metrics()
SGraph(traces) ==
    /\ sc = None
    /\ sc' = Some([op |-> "graph", traces |-> traces, g |-> build_graph(traces),
                   r |-> compute_metrics(build_graph(traces))])
    /\ UNCHANGED <<execVars, msgrVars>>

\* a caller calls GraphEvaluator().get_metrics() with no build_graph before
SMetrics ==
    /\ sc = None
    /\ sc' = Some([op |-> "metrics", r |-> GraphEvaluator_get_metrics(None)])
    /\ UNCHANGED <<execVars, msgrVars>>

\* EvalRequest
EvalRequest(agent_url, messages, task_id) ==
    [agent_url |-> agent_url, messages |-> messages, task_id |-> task_id]

\* EvalResult
EvalResult(task_id, agent_url, status, results, duration_seconds, error) ==
    [task_id |-> task_id, agent_url |-> agent_url, status |-> status,
     results |-> results, duration_seconds |-> duration_seconds, error |-> error]

\* the requests handed to Agent.run
Requests ==
    { EvalRequest(u, ms, t) : u \in Endpoints, ms \in MessageLists, t \in TaskIds }

\* what Executor() and executor.execute(...) do for a request: execute returns
\* a completed or a failed TaskResult, or an exception with message exc is
\* raised by the constructor or by execute
RunOutcomes(request) ==
    { [kind |-> "returned",
       result |-> TaskResult(request.task_id, "completed",
                     Some([tier1_graph |-> evaluate_tier1(<<>>, None),
                           tier2_llm_judge |-> EmptyJudgment,
                           tier3_text_metrics |-> evaluate_tier3(<<>>, None)]),
                     Elapsed)],
      [kind |-> "returned",
       result |-> TaskResult(request.task_id, "failed", None, Elapsed)] }
    \cup
    { [kind |-> "raised", at |-> at, exc |-> e] :
        at \in {"construct", "execute"}, e \in ExcMessages \cup FaultMessages }

\* Agent.run without the except clause of line 80
Agent_run_propagates(request, outcome) ==
    IF outcome.kind = "returned"
    THEN [value |-> Some(EvalResult(request.task_id, request.agent_url,
                            outcome.result.state, outcome.result.results, Elapsed,
                            IF outcome.result.state = "completed" THEN None
                            ELSE Some("Evaluation failed"))),
          raised |-> None]
    ELSE [value |-> None, raised |-> Some(outcome.exc)]

\* Agent.run mapping every returned TaskResult to an EvalResult without error
Agent_run_drops_error(request, outcome) ==
    IF outcome.kind = "returned"
    THEN [value |-> Some(EvalResult(request.task_id, request.agent_url,
                            outcome.result.state, outcome.result.results, Elapsed,
                            None)),
          raised |-> None]
    ELSE [value |-> Some(EvalResult(request.task_id, request.agent_url, "failed",
                            None, Elapsed, Some(outcome.exc))),
          raised |-> None]

\* Agent.run: the EvalResult returned (None if the call raised) and the
\* message of the exception that escaped (None if none did)
Agent_run(request, outcome) ==
    IF outcome.kind = "returned"
    THEN [value |-> Some(EvalResult(request.task_id, request.agent_url,
                            outcome.result.state, outcome.result.results, Elapsed,
                            IF outcome.result.state = "completed" THEN None
                            ELSE Some("Evaluation failed"))),
          raised |-> None]
    ELSE [value |-> Some(EvalResult(request.task_id, request.agent_url, "failed",
                            None, Elapsed, Some(outcome.exc))),
          raised |-> None]

\* a caller awaits Agent().run(request)
SRun(request, outcome) ==
    /\ sc = None
    /\ sc' = Some([op |-> "run", request |-> request, outcome |-> outcome,
                   r |-> Agent_run(request, outcome)])
    /\ UNCHANGED <<execVars, msgrVars>>

NextS ==
    \/ \E request \in Requests : \E outcome \in RunOutcomes(request) :
          SRun(request, outcome)
    \/ \E traces \in JudgeTraceLists, env \in ScJudgeEnvs : SJudge(traces, env)
    \/ \E traces \in JudgeTraceLists : SFallback(traces)
    \/ \E traces \in TierTraceLists, fault \in Faults : STier3(traces, fault)
    \/ \E response \in TextInputs, reference \in TextInputs : SText(response, reference)
    \/ \E traces \in GraphTraceLists : SGraph(traces)
    \/ SMetrics

SpecS == Init /\ [][NextS]_vars

TypeOK ==
    /\ running \in Calls \cup {"none"}
    /\ DOMAIN tasks \subseteq TaskIds

(***************************************************************************)
(* Properties of the Executor (checked under Spec)                         *)
(***************************************************************************)
\* the try block has been left: the result is built, the finally block is next
Done(f) == f.pc \in {"finally", "await_close", "returned"}

Terminal == {"completed", "failed", "canceled"}

TierKeys == {"tier1_graph", "tier2_llm_judge", "tier3_text_metrics"}

LastWritten(f) == f.wrote[Len(f.wrote)]

\* C1: for every execute call, whatever its outcome, Messenger.close is invoked
\* exactly once, and that invocation has finished when execute returns (and
\* it is never invoked a second time, nor before the result is built).
C1_CloseOnce ==
    \A c \in DOMAIN calls :
        LET f == calls[c]
        IN  /\ f.closes <= 1
            /\ f.closed <= f.closes
            /\ f.closes = 1 => f.result # None
            /\ f.pc = "returned" =>
                  f.closes = 1 /\ f.closed = 1 /\ f.messenger.clients = EmptyDict

\* an execute call whose send failed and whose orchestration raised has returned
C1_Witness ==
    \E c \in DOMAIN calls :
        /\ calls[c].pc = "returned"
        /\ calls[c].failedSends >= 1
        /\ calls[c].result[1].state = "failed"
        /\ calls[c].closes = 1

\* the states an execute call has written so far form pending, working+ and,
\* once the try block is left, one of completed or failed
Lifecycle(w, done) ==
    /\ Len(w) >= 2
    /\ w[1] = "pending"
    /\ \A k \in 2..(Len(w) - 1) : w[k] = "working"
    /\ IF done THEN Len(w) >= 3 /\ w[Len(w)] \in {"completed", "failed"}
       ELSE w[Len(w)] = "working"

\* C2: for an execute call whose task id was not executed before or since and
\* was not passed to cancel_task during the call, the states recorded for the
\* id are pending once, then working one or more times, then exactly one of
\* completed or failed, after which nothing more is written; the record
\* always shows the state written last.
C2_Lifecycle ==
    \A c \in DOMAIN calls :
        LET f == calls[c]
        IN  (f.pc # "idle" /\ f.alone /\ ~f.cancelSeen) =>
                /\ Lifecycle(f.wrote, Done(f))
                /\ get_status(tasks, f.task_id) # None
                /\ get_status(tasks, f.task_id)[1].state = LastWritten(f)

\* an undisturbed execute call with two messages has returned completed
C2_Witness ==
    \E c \in DOMAIN calls :
        /\ calls[c].pc = "returned"
        /\ calls[c].alone /\ ~calls[c].cancelSeen
        /\ Len(calls[c].messages) = 2
        /\ calls[c].wrote =
             <<"pending", "working", "working", "working", "working", "working",
               "working", "completed">>

\* C3: once the state recorded for a task id is completed, failed or canceled,
\* no later step changes that record to a different state.
C3_TerminalAbsorbing ==
    [][\A t \in DOMAIN tasks :
          tasks[t].state \in Terminal => tasks'[t].state = tasks[t].state]_vars

\* a task canceled while its execute call was suspended is recorded as working
C3_Witness ==
    \E c \in DOMAIN calls :
        /\ calls[c].canceled
        /\ tasks[calls[c].task_id].state = "working"

\* the judge environments an Executor may meet
AllJudgeEnvs == ExecJudgeReplies \cup { JudgeEnv(FALSE, "raises", None) }

\* C4: if exactly one of the three scorers raises during execute, that tier's
\* result mapping carries an "error" entry holding the exception message, the
\* other two tiers hold what their scorers produce for the same trace list,
\* and the task ends completed.
C4_TierIsolation ==
    \A c \in DOMAIN calls :
        LET f == calls[c]
            tr == get_traces(f.messenger)
        IN  (Done(f) /\ Cardinality(DOMAIN f.raisedTiers) = 1) =>
              /\ f.result # None
              /\ f.result[1].state = "completed"
              /\ "completed" \in { f.wrote[k] : k \in 1..Len(f.wrote) }
              /\ f.result[1].results # None
              /\ LET r == f.result[1].results[1]
                 IN  /\ IF "tier1" \in DOMAIN f.raisedTiers
                        THEN /\ "error" \in DOMAIN r.tier1_graph
                             /\ r.tier1_graph.error = f.raisedTiers["tier1"]
                        ELSE r.tier1_graph = compute_metrics(build_graph(tr))
                     /\ IF "tier2" \in DOMAIN f.raisedTiers
                        THEN /\ "error" \in DOMAIN r.tier2_llm_judge
                             /\ r.tier2_llm_judge.error = f.raisedTiers["tier2"]
                        ELSE \E env \in AllJudgeEnvs :
                                r.tier2_llm_judge = evaluate(tr, env)
                     /\ IF "tier3" \in DOMAIN f.raisedTiers
                        THEN /\ "error" \in DOMAIN r.tier3_text_metrics
                             /\ r.tier3_text_metrics.error = f.raisedTiers["tier3"]
                        ELSE r.tier3_text_metrics =
                               IF tr = <<>>
                               THEN [error |-> "No traces available",
                                     similarity_score |-> Frac(0, 1)]
                               ELSE TextMetrics_evaluate(tr[Len(tr)].response,
                                                         tr[1].response)

\* the judgment scorer alone raised, after two sends, and execute has returned
C4_Witness ==
    \E c \in DOMAIN calls :
        /\ calls[c].pc = "returned"
        /\ DOMAIN calls[c].raisedTiers = {"tier2"}
        /\ Len(calls[c].messenger.traces) = 2
        /\ calls[c].result[1].state = "completed"

IsMapping(x) == DOMAIN x # {} /\ \A k \in DOMAIN x : k \in STRING

\* C6: every TaskResult built by execute has state completed or failed and a
\* duration; if completed, results holds exactly the three tier keys, each
\* mapped to a mapping; if failed, results is absent and the recorded
\* TaskStatus.error is the message of the exception.
C6_ResultShape ==
    \A c \in DOMAIN calls :
        LET f == calls[c]
        IN  f.result # None =>
              LET r == f.result[1]
              IN  /\ r.state \in {"completed", "failed"}
                  /\ r.duration_seconds # None
                  /\ r.task_id = f.task_id
                  /\ r.state = "completed" =>
                        /\ r.results # None
                        /\ DOMAIN r.results[1] = TierKeys
                        /\ \A k \in TierKeys : IsMapping(r.results[1][k])
                  /\ r.state = "failed" =>
                        /\ r.results = None
                        /\ f.exc # None
                        /\ tasks[f.task_id].state = "failed"
                        /\ tasks[f.task_id].error = f.exc

\* an execute call has returned a failed result while the record of another
\* task, executed earlier, is completed
C6_Witness ==
    \E c \in DOMAIN calls :
        /\ calls[c].pc = "returned"
        /\ calls[c].result[1].state = "failed"
        /\ \E t \in DOMAIN tasks :
              t # calls[c].task_id /\ tasks[t].state = "completed"

\* C7: cancel_task(id) returns True exactly when the state recorded for id is
\* pending or working, and then replaces the record of id with state
\* canceled; otherwise it returns False and leaves the task table unchanged.
C7_CancelTask ==
    [][lastCancel' # None =>
         LET t == lastCancel'[1].task_id
             ret == lastCancel'[1].returned
         IN  /\ ret = (/\ get_status(tasks, t) # None
                       /\ get_status(tasks, t)[1].state \in {"pending", "working"})
             /\ ret => /\ DOMAIN tasks' = DOMAIN tasks
                       /\ tasks'[t].state = "canceled"
                       /\ tasks'[t].task_id = t
                       /\ \A u \in DOMAIN tasks : u # t => tasks'[u] = tasks[u]
             /\ ~ret => tasks' = tasks]_vars

\* cancel_task has just returned True for a task that was working
C7_Witness ==
    /\ lastCancel # None
    /\ lastCancel[1].returned
    /\ tasks[lastCancel[1].task_id].state = "canceled"

\* C8: an execute call for whose id cancel_task returned True while it was
\* suspended at a remote call is not interrupted: it can always take its
\* next step and, unless the orchestration itself raises, it has sent every
\* message, run the three tiers and closed the Messenger when it returns a
\* TaskResult with results.
C8_CancelDoesNotInterrupt ==
    \A c \in DOMAIN calls :
        LET f == calls[c]
        IN  f.canceled =>
              /\ f.pc # "returned" => ENABLED ExecStep(c)
              /\ (f.pc = "returned" /\ f.exc = None) =>
                    /\ f.sent = f.messages
                    /\ Len(f.messenger.traces) = Len(f.messages)
                    /\ f.tier1 # None /\ f.tier2 # None /\ f.tier3 # None
                    /\ f.closes = 1 /\ f.closed = 1
                    /\ f.result[1].results # None
                    /\ DOMAIN f.result[1].results[1] = TierKeys

\* an execute call canceled while suspended at a remote call has returned
\* results after sending two messages
C8_Witness ==
    \E c \in DOMAIN calls :
        /\ calls[c].pc = "returned"
        /\ calls[c].canceled
        /\ Len(calls[c].sent) = 2
        /\ calls[c].result[1].results # None

\* C17: an execute call with an empty message list, when neither the
\* orchestration nor a scorer raises, sends nothing, ends in state completed
\* with an empty trace list, and reports graph node_count 0 and edge_count 0,
\* the judgment of the empty trace list with overall_score 0.0, and the
\* similarity error result with similarity_score 0.0.
C17_EmptyInput ==
    \A c \in DOMAIN calls :
        LET f == calls[c]
        IN  (/\ f.pc = "returned" /\ f.messages = <<>>
             /\ f.exc = None /\ f.raisedTiers = EmptyDict) =>
              /\ f.sent = <<>>
              /\ f.messenger.traces = <<>>
              /\ f.traces = <<>>
              /\ f.result[1].state = "completed"
              /\ tasks[f.task_id].state = "completed"
              /\ LET res == f.result[1].results[1]
                 IN  /\ res.tier1_graph.node_count = 0
                     /\ res.tier1_graph.edge_count = 0
                     /\ res.tier2_llm_judge.overall_score = Frac(0, 1)
                     /\ res.tier2_llm_judge.coordination_quality = Some("None")
                     /\ res.tier2_llm_judge.reasoning =
                           [text |-> "No traces available for evaluation"]
                     /\ res.tier3_text_metrics =
                           [error |-> "No traces available",
                            similarity_score |-> Frac(0, 1)]

\* an execute call with no messages has returned its three tier results
C17_Witness ==
    \E c \in DOMAIN calls :
        /\ calls[c].pc = "returned"
        /\ calls[c].messages = <<>>
        /\ calls[c].raisedTiers = EmptyDict
        /\ calls[c].result[1].state = "completed"
        /\ calls[c].closed = 1

\* C23: inside one execute call every send has returned or failed before the
\* trace list is retrieved; the trace list is retrieved before any scorer
\* runs; the scorers run in the order graph, judgment, similarity, each
\* after the previous one finished; and, when the orchestration does not
\* raise, Messenger.close is invoked after the last scorer.
C23_ProtocolOrder ==
    [][\A c \in DOMAIN calls :
         LET f == calls[c]
             g == calls'[c]
         IN  /\ (f.pc # "tier1" /\ g.pc = "tier1") =>
                   /\ f.pc = "loop"
                   /\ Len(f.sent) = Len(f.messages)
                   /\ Len(f.messenger.traces) = Len(f.messages)
                   /\ g.traces = f.messenger.traces
                   /\ g.tier1 = None /\ g.tier2 = None /\ g.tier3 = None
             /\ (f.tier1 = None /\ g.tier1 # None) =>
                   /\ f.pc = "tier1"
                   /\ f.tier2 = None /\ f.tier3 = None /\ f.closes = 0
             /\ (f.tier2 = None /\ g.tier2 # None) =>
                   /\ f.tier1 # None /\ f.tier3 = None /\ f.closes = 0
             /\ (f.tier3 = None /\ g.tier3 # None) =>
                   /\ f.tier1 # None /\ f.tier2 # None /\ f.closes = 0
             /\ g.closes > f.closes =>
                   /\ f.closes = 0
                   /\ Len(f.messenger.traces) = Len(f.sent)
                   /\ f.exc = None =>
                         /\ f.tier3 # None
                         /\ f.traces = f.messenger.traces]_vars

\* an execute call with two messages has run its three scorers on its two
\* traces and closed its Messenger
C23_Witness ==
    \E c \in DOMAIN calls :
        /\ calls[c].pc = "returned"
        /\ Len(calls[c].messages) = 2
        /\ Len(calls[c].traces) = 2
        /\ calls[c].exc = None
        /\ calls[c].tier3 # None
        /\ calls[c].closes = 1
        /\ calls[c].result[1].state = "completed"

\* C24: right after the k-th send attempt of an execute call with n >= 1
\* messages, succeeded or failed, the recorded progress is k / (n + 3); every
\* progress value recorded for a task, in any state, is within [0, 1]; and a
\* completed record has progress 1.0.
C24_Progress ==
    /\ [](\A t \in DOMAIN tasks :
            LET p == tasks[t].progress
            IN  /\ p # None => (p[1][2] > 0 /\ 0 <= p[1][1] /\ p[1][1] <= p[1][2])
                /\ tasks[t].state = "completed" =>
                      (p # None /\ p[1][1] = p[1][2]))
    /\ [][\A c \in DOMAIN calls :
            calls'[c].i = calls[c].i + 1 =>
                LET f == calls[c]
                    n == Len(f.messages)
                    p == tasks'[f.task_id].progress
                IN  /\ n >= 1
                    /\ tasks'[f.task_id].state = "working"
                    /\ p # None
                    /\ p[1][1] * (n + 3) = (f.i + 1) * p[1][2]]_vars

\* after the second of two sends, which failed, the record shows progress 2/5
C24_Witness ==
    \E c \in DOMAIN calls :
        /\ calls[c].pc = "loop"
        /\ calls[c].i = 2
        /\ Len(calls[c].messages) = 2
        /\ calls[c].failedSends >= 1
        /\ tasks[calls[c].task_id].progress = Some(Frac(2, 5))

\* C34: when every remote interaction awaited comes back, every execute call
\* that has begun eventually returns, and at the step at which it returns its
\* task is recorded as completed or failed, not as pending or working.
C34_ExecuteReturns ==
    /\ \A c \in Calls :
          (calls[c].pc \notin {"idle", "returned"}) ~> (calls[c].pc = "returned")
    /\ [][\A c \in DOMAIN calls :
            (calls[c].pc # "returned" /\ calls'[c].pc = "returned") =>
                tasks'[calls'[c].task_id].state \in {"completed", "failed"}]_vars

\* an execute call whose orchestration raised, and whose task cancel_task was
\* called for while a send was awaited, has returned with the record failed
C34_Witness ==
    \E c \in DOMAIN calls :
        /\ calls[c].pc = "returned"
        /\ calls[c].exc # None
        /\ calls[c].cancelSeen
        /\ Len(calls[c].sent) >= 1
        /\ tasks[calls[c].task_id].state = "failed"

\* C35: when a send of an execute call raised, the TaskResult the call
\* returns has state failed.
C35_SendFailureFails ==
    \A c \in DOMAIN calls :
        (calls[c].pc = "returned" /\ calls[c].failedSends >= 1) =>
            calls[c].result[1].state = "failed"

\* the only send of an execute call raised, nothing else did, and the call
\* returned a completed TaskResult with the record completed
C35_Witness ==
    \E c \in DOMAIN calls :
        /\ calls[c].pc = "returned"
        /\ Len(calls[c].messages) = 1
        /\ calls[c].failedSends = 1
        /\ calls[c].exc = None
        /\ calls[c].raisedTiers = EmptyDict
        /\ calls[c].result[1].state = "completed"
        /\ tasks[calls[c].task_id].state = "completed"

\* C36: within one execute call the progress recorded for its task never
\* decreases from one status update to the next.
C36_ProgressNeverDecreases ==
    [][\A c \in DOMAIN calls :
          LET t == calls'[c].task_id
          IN  (/\ calls[c].pc # "idle"
               /\ t \in DOMAIN tasks
               /\ tasks[t].progress # None
               /\ tasks'[t].progress # None) =>
                  LET p == tasks[t].progress[1]
                      q == tasks'[t].progress[1]
                  IN  p[1] * q[2] <= q[1] * p[2]]_vars

\* after five sends, which left the progress at 5/8, the first checkpoint
\* has set it to 0.6
C36_Witness ==
    \E c \in DOMAIN calls :
        /\ calls[c].pc = "tier1"
        /\ Len(calls[c].messages) = 5
        /\ Len(calls[c].sent) = 5
        /\ tasks[calls[c].task_id].progress = Some(Frac(6, 10))

\* C37: when an execute call has returned and no other execute call ran for
\* its id, the state get_status reports for the id is the state of the
\* returned TaskResult, wherever cancel_task was called for the id during the
\* run, the final close included.
C37_StatusMatchesResult ==
    \A c \in DOMAIN calls :
        LET f == calls[c]
        IN  (f.pc = "returned" /\ f.alone) =>
              /\ get_status(tasks, f.task_id) # None
              /\ get_status(tasks, f.task_id)[1].state = f.result[1].state

\* cancel_task was called for the id of an execute call while it awaited the
\* final close and returned False; the call has returned completed and the
\* record is completed
C37_Witness ==
    \E c \in DOMAIN calls :
        /\ calls[c].pc = "returned"
        /\ calls[c].alone
        /\ calls[c].cancelSeen /\ ~calls[c].canceled
        /\ calls[c].closed = 1
        /\ calls[c].result[1].state = "completed"
        /\ get_status(tasks, calls[c].task_id)[1].state = "completed"

(***************************************************************************)
(* Properties of concurrent execute calls (checked under SpecC)            *)
(***************************************************************************)
\* C21: for any interleaving of two execute calls, each call has its own
\* Messenger: the trace list a call scores holds exactly one trace per message
\* of that call, in that call's order and to that call's endpoint; its cache
\* holds only connections to its own endpoint; and a Messenger changes (a
\* trace appended, a connection opened, the cache closed) only in a step of
\* the call that owns it.
C21_FreshStatePerCall ==
    /\ [](\A c \in DOMAIN calls :
            LET f == calls[c]
            IN  /\ f.pc \notin {"idle", "loop", "await_send", "except"} =>
                      /\ Len(f.traces) = Len(f.messages)
                      /\ \A k \in 1..Len(f.traces) :
                            /\ f.traces[k].message = f.messages[k]
                            /\ f.traces[k].agent_url = f.agent_url
                /\ f.pc # "idle" =>
                      /\ DOMAIN f.messenger.clients \subseteq {f.agent_url}
                      /\ Len(f.messenger.traces) <= Len(f.messages))
    /\ [][\A d \in DOMAIN calls :
            calls'[d].messenger # calls[d].messenger =>
                /\ calls'[d].pc # calls[d].pc
                /\ \A e \in DOMAIN calls \ {d} :
                      calls'[e].messenger = calls[e].messenger]_vars

\* two calls to different endpoints overlap: one is suspended in its second
\* send while the other has just retrieved its own two traces
C21_Witness ==
    /\ calls["c1"].pc = "await_send"
    /\ Len(calls["c1"].messenger.traces) = 1
    /\ calls["c2"].pc = "tier1"
    /\ Len(calls["c2"].traces) = 2
    /\ calls["c1"].agent_url # calls["c2"].agent_url

(***************************************************************************)
(* Properties of the Messenger (checked under SpecM)                       *)
(***************************************************************************)
\* C9: after any sequence of n talk_to_agent calls, succeeded or failed,
\* get_traces holds exactly n traces, the k-th trace carries the endpoint and
\* the message of the k-th call, and every step only appends to the trace
\* list, leaving the traces recorded earlier as they were.
C9_TracePerCall ==
    /\ [](/\ Len(get_traces(msgr)) = Len(mlog)
          /\ \A k \in 1..Len(mlog) :
                /\ get_traces(msgr)[k].agent_url = mlog[k].agent_url
                /\ get_traces(msgr)[k].message = mlog[k].message)
    /\ [][/\ Len(msgr'.traces) >= Len(msgr.traces)
          /\ SubSeq(msgr'.traces, 1, Len(msgr.traces)) = msgr.traces]_vars

\* two calls were made, to different endpoints with different messages, the
\* first of which raised and the second of which returned
C9_Witness ==
    /\ Len(mlog) = 2
    /\ mlog[1].raised /\ ~mlog[2].raised
    /\ mlog[1].agent_url # mlog[2].agent_url
    /\ mlog[1].message # mlog[2].message
    /\ Len(msgr.traces) = 2

\* C10: every trace recorded by talk_to_agent satisfies exactly one of
\* (a) response non-empty and error unset, (b) error set; none has an empty
\* response together with no error.
C10_ResponseOrError ==
    \A k \in 1..Len(msgr.traces) :
        LET t == msgr.traces[k]
            a == t.response # <<>> /\ t.error = None
            b == t.error # None
        IN  (a \/ b) /\ ~(a /\ b)

\* a call returned normally and recorded a trace with an empty response
C10_Witness ==
    \E k \in 1..Len(mlog) :
        /\ ~mlog[k].raised
        /\ msgr.traces[k].response = <<>>
        /\ msgr.traces[k].status_code = Some(200)

\* C11: when the event stream of a send ends without ever yielding a completed
\* event, talk_to_agent appends a failure trace (empty response, error set)
\* and raises to its caller instead of returning a response.
C11_StreamEndIsFailure ==
    \A k \in 1..Len(mlog) :
        (mlog[k].fail = "none" /\ ~mlog[k].terminal) =>
            /\ msgr.traces[k].response = <<>>
            /\ msgr.traces[k].error # None
            /\ mlog[k].raised

\* a call whose stream ended without a completed event returned the empty
\* response and recorded a trace with status 200 and no error
C11_Witness ==
    \E k \in 1..Len(mlog) :
        /\ mlog[k].fail = "none" /\ ~mlog[k].terminal
        /\ ~mlog[k].raised
        /\ mlog[k].value = Some(<<>>)
        /\ msgr.traces[k].error = None

\* C12: on one Messenger with no close in between, a connection is opened at
\* most once per endpoint whose connect succeeded, a send to a cached endpoint
\* opens nothing and uses the cached handle, an entry is never replaced or
\* removed by a call to any endpoint, a failed connect adds no entry, and the
\* cache holds exactly the endpoints whose connect succeeded.
C12_ConnectionPooling ==
    /\ [](/\ \A u \in DOMAIN pool.opened : pool.opened[u] = 1
          /\ DOMAIN msgr.clients = DOMAIN pool.opened)
    /\ [][Len(mlog') = Len(mlog) + 1 =>
            LET e == mlog'[Len(mlog')]
                u == e.agent_url
            IN  /\ \A v \in DOMAIN msgr.clients :
                      /\ v \in DOMAIN msgr'.clients
                      /\ msgr'.clients[v] = msgr.clients[v]
                /\ u \in DOMAIN msgr.clients =>
                      /\ e.connect = "cached"
                      /\ e.client = Some(msgr.clients[u])
                      /\ msgr'.clients = msgr.clients
                /\ u \notin DOMAIN msgr.clients => e.connect \in {"opened", "failed"}
                /\ e.connect = "failed" => msgr'.clients = msgr.clients
                /\ e.connect = "opened" =>
                      /\ DOMAIN msgr'.clients = DOMAIN msgr.clients \cup {u}
                      /\ e.client \in {None, Some(msgr'.clients[u])}]_vars

\* two calls to one endpoint with no close in between: the first opened a
\* connection, the second was served from the cache
C12_Witness ==
    /\ Len(mlog) = 2
    /\ mlog[1].agent_url = mlog[2].agent_url
    /\ mlog[1].connect = "opened"
    /\ mlog[2].connect = "cached"
    /\ pool.closes = 0

\* C13: after any number N >= 1 of close calls in a row the cache is empty
\* and none of the calls raised, whatever the cache held before (nothing, a
\* client whose close fails, a client without a close method); a close call
\* after the first changes nothing.
C13_IdempotentClose ==
    /\ [](pool.closes >= 1 => (msgr.clients = EmptyDict /\ ~pool.raised))
    /\ [][(pool.closes >= 1 /\ pool'.closes = pool.closes + 1) =>
              msgr' = msgr]_vars

\* close was called twice in a row on a cache that held a client whose close
\* fails and a client without a close method
C13_Witness ==
    /\ pool.closes = 2
    /\ \E u, v \in DOMAIN pool.before :
          pool.before[u] = "raises" /\ pool.before[v] = "absent"

\* C26: a talk_to_agent call appends one trace and raises if and only if that
\* trace is a failure trace: when it raises, the trace has an empty response,
\* no status code and an error equal to the message of the exception that
\* propagates; when it returns, the trace has status code 200, no error and a
\* response equal to the returned string.
C26_RaisesIffFailureTrace ==
    [][Len(mlog') = Len(mlog) + 1 =>
        /\ Len(msgr'.traces) = Len(msgr.traces) + 1
        /\ LET e == mlog'[Len(mlog')]
               tr == msgr'.traces[Len(msgr'.traces)]
           IN  /\ e.raised <=> tr.error # None
               /\ e.raised =>
                     /\ tr.response = <<>>
                     /\ tr.status_code = None
                     /\ tr.error = e.value
               /\ ~e.raised =>
                     /\ tr.status_code = Some(200)
                     /\ tr.error = None
                     /\ e.value = Some(tr.response)]_vars

\* one call raised in the send and left a failure trace, the next returned
\* the text "a" and left a trace with status code 200
C26_Witness ==
    /\ Len(mlog) = 2
    /\ mlog[1].raised /\ mlog[1].fail = "send"
    /\ msgr.traces[1].status_code = None /\ msgr.traces[1].error # None
    /\ ~mlog[2].raised /\ mlog[2].value = Some(<<"a">>)
    /\ msgr.traces[2].status_code = Some(200)

\* C27: when the event stream of a talk_to_agent call that got as far as the
\* stream holds a completed event, the call returns, and the returned response
\* and the response of the trace are the output of the first completed event
\* (the empty text when that event has no output), whatever the events before
\* it are and whatever follows it in the stream (more events, a failure).
C27_FirstCompletedEvent ==
    \A k \in 1..Len(mlog) :
        LET e == mlog[k]
        IN  \A j \in 1..Len(e.events) :
                (/\ e.events[j].state = "completed"
                 /\ \A i \in 1..(j - 1) : e.events[i].state # "completed"
                 /\ e.connect # "failed"
                 /\ e.fail # "send") =>
                    LET out == IF e.events[j].output = None THEN <<>>
                               ELSE e.events[j].output[1]
                    IN  /\ ~e.raised
                        /\ e.value = Some(out)
                        /\ msgr.traces[k].response = out

\* one call met a working event before the completed one, the next met two
\* completed events and returned the output of the first
C27_Witness ==
    /\ Len(mlog) = 2
    /\ mlog[1].events = <<Working, Completed(Some(<<"a">>))>>
    /\ mlog[1].value = Some(<<"a">>)
    /\ mlog[2].events = <<Completed(Some(<<"a", " ", "b">>)), Completed(Some(<<"a">>))>>
    /\ mlog[2].value = Some(<<"a", " ", "b">>)

\* C25: over any number of close calls in a row, the close method of every
\* cached client that has one is awaited exactly once, also when the close of
\* another cached client fails, and of no other client; a later close call
\* awaits no close again.
C25_CloseEachOnce ==
    pool.closes >= 1 =>
        /\ DOMAIN pool.attempts =
              { u \in DOMAIN pool.before : pool.before[u] # "absent" }
        /\ \A u \in DOMAIN pool.attempts : pool.attempts[u] = 1

\* close was called twice on a cache that held a client whose close fails and
\* a client whose close works: each was closed once
C25_Witness ==
    /\ pool.closes = 2
    /\ \E u, v \in DOMAIN pool.before :
          /\ pool.before[u] = "raises" /\ pool.before[v] = "ok"
          /\ pool.attempts[u] = 1 /\ pool.attempts[v] = 1

\* C33: in any interleaving of two execute calls and of cancel_task calls on
\* one Executor, a step of execute(A) or cancel_task(A) creates or changes no
\* entry of the task table but that of A and removes none, and the entry of
\* every id is a whole record of that id.
C33_WritesOwnEntryOnly ==
    [][LET movers == { c \in DOMAIN calls : calls'[c].pc # calls[c].pc }
       IN  /\ DOMAIN tasks \subseteq DOMAIN tasks'
           /\ \A b \in DOMAIN tasks' :
                 /\ tasks'[b].task_id = b
                 /\ DOMAIN tasks'[b] =
                       {"task_id", "state", "progress", "message", "error"}
                 /\ (b \notin DOMAIN tasks \/ tasks'[b] # tasks[b]) =>
                       IF movers # {}
                       THEN \A c \in movers : calls'[c].task_id = b
                       ELSE /\ lastCancel' # None
                            /\ lastCancel'[1].task_id = b]_vars

\* two execute calls with different ids are both suspended in a send; the
\* task of one has just been canceled and the record of the other is working
C33_Witness ==
    /\ calls["c1"].pc = "await_send" /\ calls["c2"].pc = "await_send"
    /\ calls["c1"].task_id = "A" /\ calls["c2"].task_id = "B"
    /\ lastCancel = Some([task_id |-> "B", returned |-> TRUE])
    /\ tasks["B"].state = "canceled"
    /\ tasks["A"].state = "working"

(***************************************************************************)
(* Properties of the scorers and of Agent.run (checked under SpecS)        *)
(***************************************************************************)
\* the number of traces of a list with status 200 and no error
Successes(traces) ==
    Cardinality({ k \in 1..Len(traces) :
        traces[k].status_code = Some(200) /\ traces[k].error = None })

\* C14: with a credential configured and a non-empty trace list, evaluate
\* invokes the remote judge exactly once; if that attempt raises, times out,
\* returns text that is not JSON or JSON that fails validation, evaluate
\* returns the rule-based fallback judgment for the same traces, without
\* raising and without a second remote attempt.
C14_JudgeFallsBack ==
    (sc # None /\ sc[1].op = "evaluate") =>
        LET c == sc[1]
            n == Len(c.traces)
            j == c.r.value[1]
        IN  (c.env.api_key /\ n > 0) =>
              /\ c.r.attempts = 1
              /\ c.env.reply \in {"raises", "timeout", "not_json", "not_mapping",
                                  "invalid"} =>
                    /\ c.r.raised = None
                    /\ c.r.value # None
                    /\ j.overall_score[1] * n = Successes(c.traces) * j.overall_score[2]
                    /\ j.reasoning.interactions = n
                    /\ j.coordination_quality \in
                          {Some("Excellent"), Some("Good"), Some("Fair"), Some("Poor")}
                    /\ j # RemoteJudgment

\* evaluate, with a credential, was handed three traces of which two
\* succeeded, the remote call timed out, and the fallback judgment came back
C14_Witness ==
    /\ sc # None
    /\ sc[1].op = "evaluate"
    /\ sc[1].env.api_key
    /\ sc[1].env.reply = "timeout"
    /\ Len(sc[1].traces) = 3
    /\ sc[1].r.attempts = 1
    /\ sc[1].r.value # None
    /\ sc[1].r.value[1].overall_score = Frac(2, 3)

\* C22: every judgment returned by evaluate, on the empty path, the remote path
\* and the fallback path alike, has overall_score within [0, 1] and a
\* non-empty reasoning string (a remote reply that violates this being
\* replaced by the fallback judgment).
C22_JudgmentWellFormed ==
    (sc # None /\ sc[1].op = "evaluate" /\ sc[1].r.value # None) =>
        LET j == sc[1].r.value[1]
        IN  /\ j.overall_score[2] > 0
            /\ 0 <= j.overall_score[1]
            /\ j.overall_score[1] <= j.overall_score[2]
            /\ "text" \in DOMAIN j.reasoning => j.reasoning.text # ""

\* evaluate returned a remote judgment whose overall_score is 1.5
C22_Witness ==
    /\ sc # None
    /\ sc[1].op = "evaluate"
    /\ sc[1].env.api_key
    /\ sc[1].env.reply = "valid"
    /\ sc[1].r.value = Some(sc[1].env.data)
    /\ sc[1].r.value[1].overall_score = Frac(3, 2)

\* C28: evaluate makes no remote call when the trace list is empty, in which
\* case it returns the EMPTY judgment with score 0.0 whether or not a
\* credential is configured, and none when no credential is configured, in
\* which case it returns the fallback judgment for the traces; a judge
\* built without a credential raises in neither case.
C28_NoRemoteCall ==
    (sc # None /\ sc[1].op = "evaluate") =>
        LET c == sc[1]
            n == Len(c.traces)
        IN  /\ n = 0 =>
                  /\ c.r.attempts = 0
                  /\ c.r.raised = None
                  /\ c.r.value # None
                  /\ c.r.value[1].overall_score[1] = 0
                  /\ c.r.value[1].coordination_quality = Some("None")
                  /\ c.r.value[1].reasoning =
                        [text |-> "No traces available for evaluation"]
            /\ (n > 0 /\ ~c.env.api_key) =>
                  /\ c.r.attempts = 0
                  /\ c.r.raised = None
                  /\ c.r.value # None
                  /\ "interactions" \in DOMAIN c.r.value[1].reasoning
                  /\ c.r.value[1].reasoning.interactions = n
                  /\ c.r.value[1].overall_score[1] * n =
                        Successes(c.traces) * c.r.value[1].overall_score[2]

\* evaluate, with a credential configured and a remote judge that would
\* answer, was handed no traces and returned the EMPTY judgment without a
\* remote call
C28_Witness ==
    /\ sc # None
    /\ sc[1].op = "evaluate"
    /\ sc[1].traces = <<>>
    /\ sc[1].env.api_key
    /\ sc[1].env.reply = "valid"
    /\ sc[1].r.attempts = 0
    /\ sc[1].r.value = Some(EmptyJudgment)

\* C29: in the fallback judgment, in the Excellent band weaknesses is the
\* empty list when every trace succeeded and ["Minor occasional failures"]
\* otherwise; in the Poor band strengths is the empty list; and the reasoning
\* ends with ". k errors encountered" if and only if k, the number of traces
\* whose error is set, is greater than 0.
C29_FallbackLists ==
    (sc # None /\ sc[1].op = "fallback") =>
        LET traces == sc[1].traces
            n == Len(traces)
            s == Successes(traces)
            k == Cardinality({ i \in 1..n : traces[i].error # None })
            j == sc[1].r
        IN  /\ j.coordination_quality = Some("Excellent") =>
                  j.weaknesses = IF s = n THEN Some(<<>>)
                                 ELSE Some(<<"Minor occasional failures">>)
            /\ j.coordination_quality = Some("Poor") => j.strengths = Some(<<>>)
            /\ j.reasoning.errors = IF k > 0 THEN Some(k) ELSE None

\* the fallback was handed one trace of a send that raised an exception with
\* an empty message: the judgment is Poor, its strengths are absent, and its
\* reasoning mentions no error
C29_Witness ==
    /\ sc # None
    /\ sc[1].op = "fallback"
    /\ sc[1].traces = <<FailTrace("http://b", "")>>
    /\ sc[1].r.coordination_quality = Some("Poor")
    /\ sc[1].r.strengths = None
    /\ sc[1].r.reasoning.errors = None

\* C15: for a non-empty list of n traces of which s have status 200 and no
\* error, the fallback judgment has overall_score s/n and quality Excellent
\* if s/n >= 0.9, Good if 0.7 <= s/n < 0.9, Fair if 0.5 <= s/n < 0.7, Poor
\* otherwise.
C15_FallbackScore ==
    (sc # None /\ sc[1].op = "fallback" /\ sc[1].traces # <<>>) =>
        LET n == Len(sc[1].traces)
            s == Successes(sc[1].traces)
            j == sc[1].r
        IN  /\ j.overall_score[2] > 0
            /\ j.overall_score[1] * n = s * j.overall_score[2]
            /\ j.coordination_quality =
                  Some(IF 10 * s >= 9 * n THEN "Excellent"
                       ELSE IF 10 * s >= 7 * n THEN "Good"
                       ELSE IF 10 * s >= 5 * n THEN "Fair"
                       ELSE "Poor")

\* the fallback was handed ten traces of which nine succeeded and judged
\* them Excellent
C15_Witness ==
    /\ sc # None
    /\ sc[1].op = "fallback"
    /\ Len(sc[1].traces) = 10
    /\ Successes(sc[1].traces) = 9
    /\ sc[1].r.coordination_quality = Some("Excellent")

Jaccard(A, B) ==
    IF A \cup B = {} THEN Frac(1, 1)
    ELSE Frac(Cardinality(A \cap B), Cardinality(A \cup B))

\* C18: TextMetrics.evaluate applies its cases in order: both texts empty
\* gives 1.0, exactly one empty gives 0.0, identical texts give 1.0, all
\* three with method exact; otherwise the method is token_overlap and the
\* score is clamp(0.7 * Jaccard(lower-cased whitespace token sets) +
\* 0.3 * min(len)/max(len), 0, 1), so that ("a b c", "d e f") scores 0.3;
\* the score is always within [0, 1].
C18_TextSimilarity ==
    (sc # None /\ sc[1].op = "text") =>
        LET x == sc[1].response
            y == sc[1].reference
            r == sc[1].r
            score == r.similarity_score
            J == Jaccard(TokenSet(Lower(x)), TokenSet(Lower(y)))
            lmin == IF Len(x) <= Len(y) THEN Len(x) ELSE Len(y)
            lmax == IF Len(x) <= Len(y) THEN Len(y) ELSE Len(x)
            \* 0.7 * J + 0.3 * lmin / lmax as the fraction en / ed
            en == 7 * J[1] * lmax + 3 * lmin * J[2]
            ed == 10 * J[2] * lmax
        IN  /\ score[2] > 0 /\ 0 <= score[1] /\ score[1] <= score[2]
            /\ (x = <<>> /\ y = <<>>) =>
                  score = Frac(1, 1) /\ r.method = Some("exact")
            /\ ((x = <<>>) # (y = <<>>)) =>
                  score = Frac(0, 1) /\ r.method = Some("exact")
            /\ (x # <<>> /\ x = y) =>
                  score = Frac(1, 1) /\ r.method = Some("exact")
            /\ (x # <<>> /\ y # <<>> /\ x # y) =>
                  /\ r.method = Some("token_overlap")
                  /\ en <= ed => score[1] * ed = en * score[2]
                  /\ en > ed => score[1] = score[2]
            /\ (x = <<"a", " ", "b", " ", "c">> /\ y = <<"d", " ", "e", " ", "f">>) =>
                  score[1] * 10 = 3 * score[2]

\* "b A" was compared with "a b": the token sets agree after lower-casing
\* and the texts have the same length, so the token_overlap score is 1.0
C18_Witness ==
    /\ sc # None
    /\ sc[1].op = "text"
    /\ sc[1].response = <<"b", " ", "A">>
    /\ sc[1].reference = <<"a", " ", "b">>
    /\ sc[1].r.method = Some("token_overlap")
    /\ sc[1].r.similarity_score[1] = sc[1].r.similarity_score[2]

\* a text made of whitespace only
WhitespaceOnly(s) == \A k \in 1..Len(s) : IsSpace(s[k])

\* C32 as stated: whenever evaluate reaches its general token-overlap case
\* (both texts non-empty and not identical), the two token sets are not both
\* empty.
C32_TokenSetsNotBothEmpty ==
    (sc # None /\ sc[1].op = "text" /\ sc[1].r.method = Some("token_overlap")) =>
        ~(/\ TokenSet(Lower(sc[1].response)) = {}
          /\ TokenSet(Lower(sc[1].reference)) = {})

\* C32 as amended: in the general token-overlap case the two token sets are
\* both empty exactly when both texts consist of whitespace only; then the
\* empty-sets branch sets token_overlap to 1.0, and otherwise token_overlap is
\* the Jaccard ratio of the two sets.
C32_EmptyTokenSets ==
    (sc # None /\ sc[1].op = "text" /\ sc[1].r.method = Some("token_overlap")) =>
        LET A == TokenSet(Lower(sc[1].response))
            B == TokenSet(Lower(sc[1].reference))
            both == WhitespaceOnly(sc[1].response) /\ WhitespaceOnly(sc[1].reference)
            t == sc[1].r.details[1].token_overlap
        IN  /\ sc[1].response # <<>> /\ sc[1].reference # <<>>
            /\ sc[1].response # sc[1].reference
            /\ (A = {} /\ B = {}) <=> both
            /\ both => t = Frac(1, 1)
            /\ ~both => /\ t[2] > 0
                        /\ t[1] * Cardinality(A \cup B) = Cardinality(A \cap B) * t[2]

\* one space was compared with two spaces: the general case with two empty
\* token sets, token_overlap 1.0
C32_Witness ==
    /\ sc # None
    /\ sc[1].op = "text"
    /\ sc[1].response = <<" ">>
    /\ sc[1].reference = <<" ", " ">>
    /\ sc[1].r.method = Some("token_overlap")
    /\ sc[1].r.details[1].token_overlap = Frac(1, 1)

\* C19: for a non-empty trace list the graph has one node per distinct
\* endpoint plus the evaluator node, and one edge evaluator -> endpoint per
\* distinct endpoint: node_count = distinct endpoints + 1 and edge_count =
\* distinct endpoints, however many traces repeat an endpoint.
C19_GraphCounts ==
    (sc # None /\ sc[1].op = "graph" /\ sc[1].traces # <<>>) =>
        LET t == sc[1].traces
            urls == { t[k].agent_url : k \in 1..Len(t) }
        IN  /\ sc[1].r.node_count = Cardinality(urls) + 1
            /\ sc[1].r.edge_count = Cardinality(urls)
            /\ sc[1].g.edges = { <<"evaluator", u>> : u \in urls }

\* the graph of two traces to the endpoint "evaluator" has a single node
C19_Witness ==
    /\ sc # None
    /\ sc[1].op = "graph"
    /\ Len(sc[1].traces) = 2
    /\ \A k \in 1..2 : sc[1].traces[k].agent_url = "evaluator"
    /\ sc[1].r.node_count = 1
    /\ sc[1].r.edge_count = 1

\* C30: in every GraphMetrics the graph scorer returns, avg_degree is present
\* iff node_count > 0, density is present iff node_count > 1 and
\* centrality_scores is present iff node_count > 0; the metrics operation
\* called before any build returns node_count 0 and edge_count 0 with all
\* three absent.
C30_MetricsPresence ==
    (sc # None /\ sc[1].op \in {"graph", "metrics"}) =>
        LET r == sc[1].r
        IN  /\ r.avg_degree # None <=> r.node_count > 0
            /\ r.density # None <=> r.node_count > 1
            /\ r.centrality_scores # None <=> r.node_count > 0
            /\ sc[1].op = "metrics" =>
                  /\ r.node_count = 0 /\ r.edge_count = 0
                  /\ r.avg_degree = None /\ r.density = None
                  /\ r.centrality_scores = None

\* the metrics of a graph with a single node: an average degree and a
\* centrality score but no density
C30_Witness ==
    /\ sc # None
    /\ sc[1].op = "graph"
    /\ sc[1].r.node_count = 1
    /\ sc[1].r.avg_degree # None
    /\ sc[1].r.centrality_scores # None
    /\ sc[1].r.density = None

\* C31: for every trace list, each centrality score reported by the graph
\* scorer, for every endpoint node and for the evaluator node, is within
\* [0, 1], whatever the endpoint strings are.
C31_CentralityRange ==
    (sc # None /\ sc[1].op = "graph" /\ sc[1].r.centrality_scores # None) =>
        LET cs == sc[1].r.centrality_scores[1]
        IN  \A v \in DOMAIN cs :
                /\ cs[v][2] > 0
                /\ 0 <= cs[v][1]
                /\ cs[v][1] <= cs[v][2]

\* the graph of one trace to the endpoint "evaluator" and one to another
\* endpoint: the evaluator node has a self-loop and a centrality score above 1
C31_Witness ==
    /\ sc # None
    /\ sc[1].op = "graph"
    /\ { sc[1].traces[k].agent_url : k \in 1..Len(sc[1].traces) } =
          {"evaluator", "http://a"}
    /\ sc[1].r.node_count = 2
    /\ LET c == sc[1].r.centrality_scores[1]["evaluator"]
       IN  c[1] > c[2]

\* C20: Agent.run never raises to its caller: for every request it returns
\* an EvalResult for that request, and when an exception escapes Executor
\* construction or Executor.execute the result has status failed, no results
\* and error equal to the exception message.
C20_RunNeverRaises ==
    (sc # None /\ sc[1].op = "run") =>
        LET c == sc[1]
        IN  /\ c.r.raised = None
            /\ c.r.value # None
            /\ c.r.value[1].task_id = c.request.task_id
            /\ c.r.value[1].agent_url = c.request.agent_url
            /\ c.outcome.kind = "raised" =>
                  /\ c.r.value[1].status = "failed"
                  /\ c.r.value[1].results = None
                  /\ c.r.value[1].error = Some(c.outcome.exc)

\* execute raised "boom" and Agent.run returned a failed EvalResult carrying it
C20_Witness ==
    /\ sc # None
    /\ sc[1].op = "run"
    /\ sc[1].outcome.kind = "raised"
    /\ sc[1].outcome.at = "execute"
    /\ sc[1].outcome.exc = "boom"
    /\ sc[1].r.value # None
    /\ sc[1].r.value[1].status = "failed"
    /\ sc[1].r.value[1].error = Some("boom")

\* C38: every EvalResult returned by Agent.run has status completed or failed,
\* no error if and only if the status is completed, and results if and only
\* if the status is completed.
C38_EvalResultShape ==
    (sc # None /\ sc[1].op = "run" /\ sc[1].r.value # None) =>
        LET e == sc[1].r.value[1]
        IN  /\ e.status \in {"completed", "failed"}
            /\ e.error = None <=> e.status = "completed"
            /\ e.results # None <=> e.status = "completed"

\* execute returned a failed TaskResult and Agent.run returned a failed
\* EvalResult without results and with the error "Evaluation failed"
C38_Witness ==
    /\ sc # None
    /\ sc[1].op = "run"
    /\ sc[1].outcome.kind = "returned"
    /\ sc[1].outcome.result.state = "failed"
    /\ sc[1].r.value # None
    /\ sc[1].r.value[1].status = "failed"
    /\ sc[1].r.value[1].results = None
    /\ sc[1].r.value[1].error = Some("Evaluation failed")

====
